---------------------------- MODULE Spec2Model ----------------------------
(***************************************************************************)
(* SpeechFunctionCaller: the server's chunk reassembly, debounce timers    *)
(* and single-flight transcription (Transcriber.java), the per-client      *)
(* state store (InstanceManager.java), the function-resolution engine      *)
(* (FunctionResolver.java) and the client's polling loop                   *)
(* (SpeechFunctionCaller.ts).                                              *)
(*                                                                         *)
(* Time is counted in ticks of 1/TicksPerSecond s and kept as clocks: a    *)
(* timestamp field is held as the time elapsed since it was written, a     *)
(* scheduled future as the time left until it is due.  The code reads its  *)
(* timestamps only through such differences.  A scheduled callback runs    *)
(* as soon as it is due: time does not advance past a due timer.           *)
(***************************************************************************)
EXTENDS Integers, Sequences, FiniteSets, TLC

\* ------------------------------------------------------------- bounds
TicksPerSecond == 10
MaxChunks == 2
MaxClears == 1
MaxRetries == 2
MaxDataChunks == 3
MaxRemoves == 1
MaxPollChains == 2
MaxUnchanged == 50
MaxRounds == 6
MaxTools == 2
MaxToolRounds == 3
MaxSchemas == 2
MaxSchemaCalls == 2
MaxSegments == 3
MaxQueued == 4
MaxTicks == 3
MaxRecorded == 3
MaxSamples == 2
MaxGateCalls == 2
MaxKeyed == 3
MaxChunkCount == 2
MaxClockStep == 1
MaxTurn == 2
MaxTranscriptions == 2
MaxSamePolls == 2
MaxPushed == 2
MaxCommands == 2
MaxToggles == 8
Resolution == 10

\* ------------------------------------------------- program constants
SILENCE_TIMEOUT_SECONDS == 3
MAX_AUDIO_TIMEOUT_SECONDS == 15
retryAfterSeconds == 57
minDelay == 1000
maxDelay == 10000
COMPRESSION_THRESHOLD == 3
MAX_CHUNK_SIZE == 512 * 1024
CHUNK_SIZE == 5000

SilenceTicks == SILENCE_TIMEOUT_SECONDS * TicksPerSecond
MaxTimeoutTicks == MAX_AUDIO_TIMEOUT_SECONDS * TicksPerSecond
RetryTicks == retryAfterSeconds * TicksPerSecond

\* ------------------------------------------------------------ inputs
Clients == {"A", "B"}
Sessions == {"s1", "s2", "s3"}
\* The clientId query parameter of each session's URI.
SessionClient(s) == IF s = "s3" THEN "B" ELSE "A"

\* A sequence key "<timestamp>-<index>", each part a string of decimal digits.
Key(ts, ix) == [ts |-> ts, ix |-> ix]
NoKey == Key(<<>>, <<>>)

\* Base64 text as a sequence of characters: 0..63 are the alphabet's values,
\* Pad is '=', Bad is a character outside the alphabet.
Pad == 64
Bad == 65
\* The chunks a client sends: "100-2", "100-10", "99-0", "100-02" (the key
\* "100-2" spelled otherwise), "101-0", whose content is no Base64, and a
\* second chunk "100-2" with other content.
Chunks == { [key |-> Key(<<1, 0, 0>>, <<2>>),    data |-> <<0, 16, Pad, Pad>>],
            [key |-> Key(<<1, 0, 0>>, <<1, 0>>), data |-> <<0, 32, 12, Pad>>],
            [key |-> Key(<<9, 9>>, <<0>>),       data |-> <<1, 0, Pad, Pad>>],
            [key |-> Key(<<1, 0, 0>>, <<0, 2>>), data |-> <<1, 16, Pad, Pad>>],
            [key |-> Key(<<1, 0, 1>>, <<0>>),    data |-> <<Bad, 0, 0, 0>>],
            [key |-> Key(<<1, 0, 0>>, <<2>>),    data |-> <<2, 0, Pad, Pad>>] }

\* Texts the speech-to-text service returns: sequences of characters, 0 a blank.
ServiceTexts == { <<0>>, <<1>>, <<0, 1>>, <<2>> }

Min(a, b) == IF a < b THEN a ELSE b
Max(a, b) == IF a > b THEN a ELSE b
Last(s) == s[Len(s)]

VARIABLES
    base64AudioChunks,        \* static TreeMap: entries in comparator order
    websocketAudioBuffer,     \* per Transcriber: bytes
    activeSessions,           \* per Transcriber: registered sessions
    sessionOpen,              \* per session: session.isOpen()
    currentTranscription,
    previousTranscription,
    currentTranscriptionTask, \* per Transcriber: the Future, [id, st]
    taskQueue,                \* per Transcriber: the executor's queue
    running,                  \* per Transcriber: tasks a worker thread is running
    transcriptionTimer,       \* per Transcriber: the ScheduledFuture, [st, left]
    maxTimeoutTimer,
    schedRunning,             \* per Transcriber: callback the scheduler thread started
    newDataAvailable,
    sinceLastData,            \* currentTimeMillis() - lastDataAddedTimestamp, up to SilenceTicks
    firstDataSet,             \* firstDataAddedTimestamp != 0
    nextTaskId,
    schedulerQueue,           \* per Transcriber: futures in the scheduler's queue, by callback
    \* history, read only by the properties
    arrivals,                 \* chunks that arrived: [client, kind, key, data]
    clears,                   \* number of clearAll calls so far
    clearedUpTo,              \* per Transcriber: Len(arrivals) at its last clearAll
    sinceArrival,             \* per Transcriber: time since a chunk last arrived, up to SilenceTicks
    lastSubmit,               \* per Transcriber: the last task submitted
    started,                  \* per Transcriber: the last payload assembled
    pushes,                   \* per session: texts sent to it
    lastSend,                 \* per Transcriber: the last sendTranscriptionToWebSockets call
    obs,                      \* per Transcriber: observer of the debounce scenario
    stream,                   \* observer of the scenario "a chunk every second"
    serviceAnswer,            \* observer: how the last call to the service ended
    \* InstanceManager
    clientInstances,          \* clientId -> the client's map (0: no mapping)
    maps,                     \* the ConcurrentHashMaps made: className -> instance (0: none)
    created,                  \* the instances made by createNewInstance
    call,                     \* per thread: its getInstance call
    removes,                  \* per client: removeClient calls so far
    \* SpeechFunctionCaller (the client)
    capturing,
    chunkIntervalId,          \* TRUE: an interval is set
    audioChunks,              \* TRUE: audioChunks.length > 0
    audioWebHandler,          \* TRUE: a WebSocket handler is set
    isPolling,
    lastTranscription,
    backoffDelay,             \* in 1/Resolution ms
    inFlight,                 \* polls sent and not yet resolved
    scheduled,                \* setTimeout callbacks of pollWithBackoff not yet run
    unchanged,                \* polls in a row that found the transcription unchanged
    errored,                  \* a poll failed since the delay was last reset
    lastPoll,                 \* how the last poll ended
    \* FunctionResolver
    contextHistory,
    contextSummary,
    query,
    chatMessages,             \* the messages of the last request to the model
    rounds,                   \* resolveFunctions calls so far
    lastRound,                \* the last resolveFunctions call
    prevRound,                \* the call before it
    tools,                    \* the registered tool definitions, by name
    \* SpeechFunctionCaller: the tool schemas
    toolSchemas,              \* the registered schema generators
    pageState,                \* what the generators read from the page
    evaluations,              \* per generator: how often it was called
    schemaCalls,              \* getToolSchemas calls so far
    lastSchemas,              \* what the last getToolSchemas call returned
    \* SpeechFunctionCaller: the audio segments
    segments,                 \* the byte lengths of the segments handled so far
    frames,                   \* the binary frames handed to the WebSocket handler
    posted,                   \* the Base64 chunks handed to the communication handler
    \* SpeechFunctionCaller: the processing queue
    processingQueue,          \* the segments pushed and not yet dispatched
    isProcessing,
    chunkState,               \* per segment: where its handleAudioChunk call is
    cycles,                   \* the processQueue calls that await their Promise.all
    \* SpeechFunctionCaller: the capture session
    recordedTime,             \* the duration of the audio in audioChunks
    lastProcessedTime,        \* the cursor of startContinuousRecording
    tickRuns,                 \* per interval tick: where its callback is
    cut,                      \* the segments cut so far: [from, to, silent]
    \* SpeechFunctionCaller: the silence gate
    gate,                     \* the last isSilence call: its input and what it computed
    \* SpeechFunctionCaller: the sequence keys
    clock,                    \* what Date.now() returns, in milliseconds
    keyed,                    \* the chunks in the order handleAudioChunk cut them: [segment, ts, index]
    \* SpeechFunctionCaller and Transcriber: the Base64 path of one segment
    roundTrip,                \* the segment's bytes, its chunks, what the server holds and what it decoded
    \* SpeechFunctionCaller: the transcriptions it receives
    serverTranscription,      \* the Transcriber's currentTranscription
    transcriptions,           \* how often it has changed
    pushInFlight,             \* the texts pushed to the client's WebSocket and not yet delivered
    received,                 \* the texts the client has received, by push or by poll
    commands,                 \* the texts handed to handleCommand
    \* SpeechFunctionCaller: the handleCommand executions
    commandPc,                \* per command: where its handleCommand is
    resolvedWith,             \* per command: the query and the tools its resolveFunctions call found
    \* SpeechFunctionCaller: the recorder and the timers of the window
    mediaRecorder,            \* state of the recorder this.mediaRecorder refers to
    orphans,                  \* recorders still recording that nothing refers to
    intervals,                \* interval timers set and not cleared
    starting,                 \* startRecording calls waiting for getUserMedia
    toggles,                  \* toggleCapture calls so far
    \* DataProcessor: the envelopes being processed
    envelope,                 \* per thread: the envelope its process call works on
    reply,                    \* per thread: what its last process call gave the caller
    served                    \* clients that have sent an envelope with a known class and function

tvars == << base64AudioChunks, websocketAudioBuffer, activeSessions, sessionOpen,
            currentTranscription, previousTranscription, currentTranscriptionTask,
            taskQueue, running, transcriptionTimer, maxTimeoutTimer, schedRunning,
            newDataAvailable, sinceLastData, firstDataSet, nextTaskId, schedulerQueue,
            arrivals, clears, clearedUpTo, sinceArrival, lastSubmit, started, pushes,
            lastSend, obs >>

imvars == << clientInstances, maps, created, call, removes >>

pvars == << capturing, chunkIntervalId, audioChunks, audioWebHandler, isPolling,
            lastTranscription, backoffDelay, inFlight, scheduled, unchanged, errored,
            lastPoll >>

frvars == << contextHistory, contextSummary, query, chatMessages, rounds, lastRound,
             prevRound, tools >>

svars == << toolSchemas, pageState, evaluations, schemaCalls, lastSchemas >>
avars == << segments, frames, posted >>
qvars == << processingQueue, isProcessing, chunkState, cycles >>
cvars == << recordedTime, lastProcessedTime, tickRuns, cut >>

kvars == << clock, keyed >>
rtvars == << roundTrip >>
uvars == << serverTranscription, transcriptions, pushInFlight, received, commands >>
hvars == << commandPc, resolvedWith >>
mvars == << mediaRecorder, orphans, intervals, starting, toggles >>
dvars == << envelope, reply, served >>
\* What the steps of the Transcriber and of the stream leave alone.
rest == << serviceAnswer, imvars, pvars, frvars, svars, avars, qvars, cvars, gate, kvars, rtvars, uvars, hvars, mvars, dvars >>
\* What the Transcriber's steps leave alone.
others == << stream, rest >>
\* What the InstanceManager's steps leave alone.
notIM == << tvars, stream, serviceAnswer, pvars, frvars, svars, avars, qvars, cvars, gate, kvars, rtvars, uvars, hvars, mvars, dvars >>
\* What the client's steps leave alone.
notPoll == << tvars, stream, serviceAnswer, imvars, frvars, svars, avars, qvars, cvars, gate, kvars, rtvars, uvars, hvars, mvars, dvars >>
\* What the FunctionResolver's steps leave alone.
notFR == << tvars, stream, serviceAnswer, imvars, pvars, svars, avars, qvars, cvars, gate, kvars, rtvars, uvars, hvars, mvars, dvars >>
\* What the steps on the tool schemas leave alone.
notSchemas == << tvars, stream, serviceAnswer, imvars, pvars, frvars, avars, qvars, cvars, gate, kvars, rtvars, uvars, hvars, mvars, dvars >>
\* What the handling of an audio segment leaves alone.
notAudio == << tvars, stream, serviceAnswer, imvars, pvars, frvars, svars, qvars, cvars, gate, kvars, rtvars, uvars, hvars, mvars, dvars >>
\* What a task's step that the observer of the service's answers records leaves alone.
notOutcome == << stream, imvars, pvars, frvars, svars, avars, qvars, cvars, gate, kvars, rtvars, uvars, hvars, mvars, dvars >>
\* What the steps of the processing queue leave alone.
notQueue == << tvars, stream, serviceAnswer, imvars, pvars, frvars, svars, avars, cvars, gate, kvars, rtvars, uvars, hvars, mvars, dvars >>
\* What the steps of the capture session leave alone, the queue apart.
notCapture == << tvars, stream, serviceAnswer, imvars, pvars, frvars, svars, avars, gate, kvars, rtvars, uvars, hvars, mvars, dvars >>
\* What a call of isSilence leaves alone.
notGate == << tvars, stream, serviceAnswer, imvars, pvars, frvars, svars, avars, qvars, cvars, kvars, rtvars, uvars, hvars, mvars, dvars >>

notKeys == << tvars, stream, serviceAnswer, imvars, pvars, frvars, svars, avars, qvars, cvars, gate, rtvars, uvars, hvars, mvars, dvars >>

notTrip == << tvars, stream, serviceAnswer, imvars, pvars, frvars, svars, avars, qvars, cvars, gate, kvars, uvars, hvars, mvars, dvars >>

notUpdates == << tvars, stream, serviceAnswer, imvars, pvars, frvars, svars, avars, qvars, cvars, gate, kvars, rtvars, hvars, mvars, dvars >>
\* What the client's handling of a received transcription leaves alone.
notPollUpdates == << tvars, stream, serviceAnswer, imvars, frvars, svars, avars, qvars, cvars, gate, kvars, rtvars, hvars, mvars, dvars >>

notCommands == << tvars, stream, serviceAnswer, imvars, pvars, frvars, svars, avars, qvars, cvars, gate, kvars, rtvars, uvars, mvars, dvars >>
\* What a request of handleCommand to the FunctionResolver leaves alone.
notFRCommands == << tvars, stream, serviceAnswer, imvars, pvars, svars, avars, qvars, cvars, gate, kvars, rtvars, uvars, mvars, dvars >>

notMedia == << tvars, stream, serviceAnswer, imvars, pvars, frvars, svars, avars, qvars, cvars, gate, kvars, rtvars, uvars, hvars, dvars >>
\* What toggleCapture and the start it awaits leave alone.
notPollMedia == << tvars, stream, serviceAnswer, imvars, frvars, svars, avars, qvars, cvars, gate, kvars, rtvars, uvars, hvars, dvars >>

notProcess == << tvars, stream, serviceAnswer, imvars, pvars, frvars, svars, avars, qvars, cvars, gate, kvars, rtvars, uvars, hvars, mvars >>
\* What a process call and the getInstance call in it leave alone.
notIMProcess == << tvars, stream, serviceAnswer, pvars, frvars, svars, avars, qvars, cvars, gate, kvars, rtvars, uvars, hvars, mvars >>

vars == << tvars, stream, serviceAnswer, imvars, pvars, frvars, svars, avars, qvars, cvars, gate, kvars, rtvars, uvars, hvars, mvars, dvars >>

\* ------------------------------------------------ futures and timers
NullTimer == [st |-> "null", left |-> 0]
NullTask == [id |-> 0, st |-> "null"]

\* Future.isDone(): completed or cancelled.
IsDone(f) == f.st \in {"done", "cancelled"}

\* A timer that is replaced or dropped without being cancelled.
NoCancel(t) == t

\* if (t != null && !t.isDone()) t.cancel(false)
CancelTimer(t) == IF t.st # "null" /\ ~IsDone(t) THEN [st |-> "cancelled", left |-> 0] ELSE t

\* scheduler.schedule(callback, delay, SECONDS)
Schedule(delay) == [st |-> "pending", left |-> delay]

\* The callback returns: its own future completes unless it was cancelled or replaced.
Complete(t) == IF t.st = "running" THEN [st |-> "done", left |-> 0] ELSE t

\* The scheduler's queue holds the futures scheduled and neither started nor
\* cancelled, n of them for one callback: what is left of them when
\* `if (t != null && !t.isDone()) t.cancel(false)` has run on the field t.
Uncancelled(n, t) == IF t.st = "pending" /\ CancelTimer(t).st # "pending" THEN n - 1 ELSE n

\* ------------------------------------------------- sequence-key order
\* Long.parseLong / Integer.parseInt of a string of decimal digits.
RECURSIVE ParseLong(_)
ParseLong(s) == IF s = <<>> THEN 0
                ELSE 10 * ParseLong(SubSeq(s, 1, Len(s) - 1)) + Last(s)

\* Long.compare / Integer.compare.
NumCompare(x, y) == IF x < y THEN -1 ELSE IF x > y THEN 1 ELSE 0

\* String.compareTo on "<ts>-<ix>": '-' sorts before every digit.
KeyText(k) == k.ts \o <<-1>> \o k.ix
RECURSIVE TextCompare(_, _)
TextCompare(s, t) ==
    IF s = <<>> \/ t = <<>> THEN NumCompare(Len(s), Len(t))
    ELSE IF Head(s) # Head(t) THEN NumCompare(Head(s), Head(t))
    ELSE TextCompare(Tail(s), Tail(t))
CompareAsText(a, b) == TextCompare(KeyText(a), KeyText(b))

\* The TreeMap's comparator: timestamps first, then sequence numbers.
Compare(a, b) ==
    IF ParseLong(a.ts) # ParseLong(b.ts)
    THEN NumCompare(ParseLong(a.ts), ParseLong(b.ts))
    ELSE NumCompare(ParseLong(a.ix), ParseLong(b.ix))

\* TreeMap.put: an entry that compares equal keeps its key and takes the new value.
TreeMapPut(m, k, v) ==
    IF \E i \in 1..Len(m) : Compare(m[i].key, k) = 0
    THEN [i \in 1..Len(m) |-> IF Compare(m[i].key, k) = 0
                              THEN [key |-> m[i].key, data |-> v] ELSE m[i]]
    ELSE LET pos == Cardinality({i \in 1..Len(m) : Compare(m[i].key, k) < 0})
         IN SubSeq(m, 1, pos) \o <<[key |-> k, data |-> v]>> \o SubSeq(m, pos + 1, Len(m))

\* ------------------------------------------------------------ Base64
RECURSIVE PadCount(_)
PadCount(s) == IF s # <<>> /\ Last(s) = Pad THEN 1 + PadCount(SubSeq(s, 1, Len(s) - 1)) ELSE 0

\* The bytes of the characters b: three for every four characters, one for a
\* rest of two characters and two for a rest of three.
DecodeUnits(b) ==
    LET rest3 == Len(b) % 4
        n == 3 * (Len(b) \div 4) + (IF rest3 < 2 THEN 0 ELSE rest3 - 1)
    IN [k \in 1..n |->
          LET q == 4 * ((k - 1) \div 3)
              r == (k - 1) % 3
          IN IF r = 0 THEN b[q + 1] * 4 + (b[q + 2] \div 16)
             ELSE IF r = 1 THEN (b[q + 2] % 16) * 16 + (b[q + 3] \div 4)
             ELSE (b[q + 3] % 4) * 64 + b[q + 4]]

\* Base64.getDecoder().decode: ok = FALSE stands for IllegalArgumentException.
Base64Decode(s) ==
    LET pads == PadCount(s)
        body == SubSeq(s, 1, Len(s) - pads)
        bad  == \/ pads > 2
                \/ \E i \in 1..Len(body) : body[i] \notin 0..63
                \/ pads > 0 /\ Len(s) % 4 # 0
                \/ Len(body) % 4 = 1
    IN IF bad THEN [ok |-> FALSE, bytes |-> <<>>]
       ELSE [ok |-> TRUE, bytes |-> DecodeUnits(body)]

\* The loop over base64AudioChunks.entrySet(): an undecodable chunk is skipped.
RECURSIVE DecodeAll(_)
DecodeAll(m) ==
    IF m = <<>> THEN <<>>
    ELSE LET d == Base64Decode(Head(m).data)
         IN (IF d.ok THEN d.bytes ELSE <<>>) \o DecodeAll(Tail(m))

\* String.trim() on a text whose blank is 0.
RECURSIVE TrimLeft(_)
TrimLeft(t) == IF t # <<>> /\ Head(t) = 0 THEN TrimLeft(Tail(t)) ELSE t
RECURSIVE TrimRight(_)
TrimRight(t) == IF t # <<>> /\ Last(t) = 0 THEN TrimRight(SubSeq(t, 1, Len(t) - 1)) ELSE t

\* A text taken as the service returns it.
Untrimmed(t) == t

\* newTranscription.trim()
Trim(t) == TrimRight(TrimLeft(t))



\* ------------------------------------------------------ Transcriber
NoSend == [n |-> 0, text |-> <<>>, prevText |-> <<>>, changed |-> FALSE,
           prevChanged |-> FALSE, open |-> {}, prevOpen |-> {}, sentTo |-> {},
           prevSentTo |-> {}, prevFailed |-> {}, failed |-> {},
           cleared |-> FALSE, clearing |-> FALSE]
ObsOff == [phase |-> "off", clock |-> 0, firedAt |-> 0, tasks |-> 0]

InitTranscriber ==
    /\ base64AudioChunks = <<>>
    /\ websocketAudioBuffer = [c \in Clients |-> <<>>]
    /\ activeSessions = [c \in Clients |-> {}]
    /\ sessionOpen = [s \in Sessions |-> TRUE]
    /\ currentTranscription = [c \in Clients |-> <<>>]
    /\ previousTranscription = [c \in Clients |-> <<>>]
    /\ currentTranscriptionTask = [c \in Clients |-> NullTask]
    /\ taskQueue = [c \in Clients |-> <<>>]
    /\ running = [c \in Clients |-> {}]
    /\ transcriptionTimer = [c \in Clients |-> NullTimer]
    /\ maxTimeoutTimer = [c \in Clients |-> NullTimer]
    /\ schedRunning = [c \in Clients |-> "none"]
    /\ newDataAvailable = [c \in Clients |-> FALSE]
    /\ sinceLastData = [c \in Clients |-> SilenceTicks]
    /\ firstDataSet = [c \in Clients |-> FALSE]
    /\ nextTaskId = [c \in Clients |-> 1]
    /\ schedulerQueue = [c \in Clients |-> [silence |-> 0, max |-> 0]]
    /\ arrivals = <<>>
    /\ clears = 0
    /\ clearedUpTo = [c \in Clients |-> 0]
    /\ sinceArrival = [c \in Clients |-> SilenceTicks]
    /\ lastSubmit = [c \in Clients |-> [id |-> 0, by |-> "none", since |-> 0, active |-> FALSE]]
    /\ started = [c \in Clients |-> [id |-> 0, audio |-> <<>>, allLo |-> 0, ownLo |-> 0, hi |-> 0]]
    /\ pushes = [s \in Sessions |-> <<>>]
    /\ lastSend = [c \in Clients |-> NoSend]
    /\ obs = [c \in Clients |-> ObsOff]

\* hasAudioData()
HasAudioData(c) == base64AudioChunks # <<>> \/ Len(websocketAudioBuffer[c]) > 0

\* combinedBuffer after the synchronized block of startTranscription.
CombinedBuffer(c) == DecodeAll(base64AudioChunks) \o websocketAudioBuffer[c]

\* currentTranscriptionTask == null || currentTranscriptionTask.isDone()
NoActiveTask(c) == currentTranscriptionTask[c].st = "null" \/ IsDone(currentTranscriptionTask[c])

\* An executor with a pool of threads: a worker is always at hand.
PooledWorkerFree(c) == TRUE

\* transcriptionExecutor is a single-thread executor: its one worker takes the
\* next task only when it runs none.
WorkerFree(c) == running[c] = {}

\* timeSinceLastData < SILENCE_TIMEOUT_SECONDS * 1000, negated
SilenceElapsed(c) == sinceLastData[c] >= SilenceTicks

\* A silence timer that new data does not reset while it is pending.
KeepPendingSilenceTimer(c) ==
    IF transcriptionTimer[c].st = "pending" THEN transcriptionTimer[c] ELSE Schedule(SilenceTicks)

\* The silence timer of handleNewDataAdded: the pending one cancelled, a new one scheduled.
ResetSilenceTimer(c) == Schedule(SilenceTicks)

\* The max timeout timer of handleNewDataAdded: armed on the first data only.
ArmMaxTimeoutTimer(c) ==
    IF ~firstDataSet[c] THEN Schedule(MaxTimeoutTicks) ELSE maxTimeoutTimer[c]

\* handleNewDataAdded
HandleNewDataAdded(c) ==
    /\ newDataAvailable' = [newDataAvailable EXCEPT ![c] = TRUE]
    /\ sinceLastData' = [sinceLastData EXCEPT ![c] = 0]
    /\ firstDataSet' = [firstDataSet EXCEPT ![c] = TRUE]
    /\ maxTimeoutTimer' = [maxTimeoutTimer EXCEPT ![c] = ArmMaxTimeoutTimer(c)]
    /\ transcriptionTimer' = [transcriptionTimer EXCEPT ![c] = ResetSilenceTimer(c)]
    /\ schedulerQueue' = [schedulerQueue EXCEPT ![c] =
          [silence |-> Uncancelled(@.silence, transcriptionTimer[c]) + 1,
           max |-> IF ~firstDataSet[c]
                   THEN Uncancelled(@.max, maxTimeoutTimer[c]) + 1 ELSE @.max]]

\* transcriptionExecutor.submit(this::startTranscription) from callback `by`.
SubmitTask(c, by) ==
    /\ newDataAvailable' = [newDataAvailable EXCEPT ![c] = FALSE]
    /\ currentTranscriptionTask' =
          [currentTranscriptionTask EXCEPT ![c] = [id |-> nextTaskId[c], st |-> "new"]]
    /\ taskQueue' = [taskQueue EXCEPT ![c] = Append(@, [id |-> nextTaskId[c], cancelled |-> FALSE])]
    /\ nextTaskId' = [nextTaskId EXCEPT ![c] = @ + 1]
    /\ lastSubmit' = [lastSubmit EXCEPT ![c] =
                         [id |-> nextTaskId[c], by |-> by, since |-> sinceArrival[c],
                          active |-> currentTranscriptionTask[c].st = "new"]]

NoSubmit == UNCHANGED << currentTranscriptionTask, taskQueue, nextTaskId, lastSubmit >>

\* A chunk arrives: the history, and the observer of the scenario "silence timer
\* armed at 0, next chunk one tick before it is due, nothing else".
Arrive(c, kind, key, data) ==
    /\ arrivals' = Append(arrivals, [client |-> c, kind |-> kind, key |-> key, data |-> data])
    /\ sinceArrival' = [sinceArrival EXCEPT ![c] = 0]
    /\ obs' = [obs EXCEPT ![c] =
                 IF @.phase = "armed" /\ @.clock = SilenceTicks - 1
                 THEN [@ EXCEPT !.phase = "second"]
                 ELSE IF taskQueue[c] = <<>> /\ running[c] = {}
                      THEN [phase |-> "armed", clock |-> 0, firedAt |-> 0, tasks |-> nextTaskId[c]]
                      ELSE ObsOff]

\* addBase64Data(chunkData), reached through DataProcessor.process.
AddBase64Data(c, key, data) ==
    /\ base64AudioChunks' = TreeMapPut(base64AudioChunks, key, data)
    /\ HandleNewDataAdded(c)
    /\ Arrive(c, "base64", key, data)
    /\ NoSubmit
    /\ UNCHANGED << websocketAudioBuffer, activeSessions, sessionOpen,
                    currentTranscription, previousTranscription, running, schedRunning,
                    clears, clearedUpTo, started, pushes, lastSend >>

\* AudioWebSocketHandler.handleBinaryMessage: addWebsocketData(audioData), then
\* registerWebSocketSession(session).
HandleBinaryMessage(s, audioData) ==
    LET c == SessionClient(s) IN
    /\ sessionOpen[s]
    /\ websocketAudioBuffer' = [websocketAudioBuffer EXCEPT ![c] = @ \o audioData]
    /\ HandleNewDataAdded(c)
    /\ activeSessions' = [activeSessions EXCEPT ![c] = @ \cup {s}]
    /\ Arrive(c, "ws", NoKey, audioData)
    /\ NoSubmit
    /\ UNCHANGED << base64AudioChunks, sessionOpen, currentTranscription,
                    previousTranscription, running, schedRunning, clears, clearedUpTo,
                    started, pushes, lastSend >>

\* unregisterWebSocketSession(session)
UnregisterWebSocketSession(s) ==
    LET c == SessionClient(s) IN
    /\ s \in activeSessions[c]
    /\ activeSessions' = [activeSessions EXCEPT ![c] = @ \ {s}]
    /\ UNCHANGED << base64AudioChunks, websocketAudioBuffer, sessionOpen,
                    currentTranscription, previousTranscription, currentTranscriptionTask,
                    taskQueue, running, transcriptionTimer, maxTimeoutTimer, schedRunning,
                    newDataAvailable, sinceLastData, firstDataSet, nextTaskId,
                    arrivals, clears, clearedUpTo, sinceArrival, lastSubmit, started,
                    pushes, lastSend, obs, schedulerQueue >>

\* The peer closes a session: session.isOpen() turns false.
CloseSession(s) ==
    /\ sessionOpen[s]
    /\ sessionOpen' = [sessionOpen EXCEPT ![s] = FALSE]
    /\ UNCHANGED << base64AudioChunks, websocketAudioBuffer, activeSessions,
                    currentTranscription, previousTranscription, currentTranscriptionTask,
                    taskQueue, running, transcriptionTimer, maxTimeoutTimer, schedRunning,
                    newDataAvailable, sinceLastData, firstDataSet, nextTaskId,
                    arrivals, clears, clearedUpTo, sinceArrival, lastSubmit, started,
                    pushes, lastSend, obs, schedulerQueue >>

\* The scheduler thread takes the due silence timer and starts its callback,
\* which then waits for transcriptionLock.
SilenceTimerStart(c) ==
    /\ transcriptionTimer[c].st = "pending"
    /\ transcriptionTimer[c].left = 0
    /\ schedRunning[c] = "none"
    /\ transcriptionTimer' = [transcriptionTimer EXCEPT ![c].st = "running"]
    /\ schedulerQueue' = [schedulerQueue EXCEPT ![c].silence = @ - 1]
    /\ schedRunning' = [schedRunning EXCEPT ![c] = "silence"]
    /\ UNCHANGED << base64AudioChunks, websocketAudioBuffer, activeSessions, sessionOpen,
                    currentTranscription, previousTranscription, currentTranscriptionTask,
                    taskQueue, running, maxTimeoutTimer, newDataAvailable, sinceLastData,
                    firstDataSet, nextTaskId, arrivals, clears, clearedUpTo, sinceArrival,
                    lastSubmit, started, pushes, lastSend, obs >>

\* The silence callback, under transcriptionLock.
SilenceTimerRun(c) ==
    /\ schedRunning[c] = "silence"
    /\ schedRunning' = [schedRunning EXCEPT ![c] = "none"]
    /\ IF ~SilenceElapsed(c)
       THEN /\ HandleNewDataAdded(c)
            /\ NoSubmit
            /\ UNCHANGED obs
       ELSE /\ transcriptionTimer' = [transcriptionTimer EXCEPT ![c] = Complete(@)]
            /\ UNCHANGED << sinceLastData, firstDataSet, maxTimeoutTimer, schedulerQueue >>
            /\ IF HasAudioData(c) /\ NoActiveTask(c)
               THEN /\ SubmitTask(c, "silence")
                    /\ obs' = [obs EXCEPT ![c] =
                                 IF @.phase = "second"
                                 THEN [@ EXCEPT !.phase = "fired", !.firedAt = obs[c].clock]
                                 ELSE ObsOff]
               ELSE /\ NoSubmit
                    /\ UNCHANGED << newDataAvailable, obs >>
    /\ UNCHANGED << base64AudioChunks, websocketAudioBuffer, activeSessions, sessionOpen,
                    currentTranscription, previousTranscription, running, arrivals, clears,
                    clearedUpTo, sinceArrival, started, pushes, lastSend >>

\* The scheduler thread takes the due max timeout timer.
MaxTimerStart(c) ==
    /\ maxTimeoutTimer[c].st = "pending"
    /\ maxTimeoutTimer[c].left = 0
    /\ schedRunning[c] = "none"
    /\ maxTimeoutTimer' = [maxTimeoutTimer EXCEPT ![c].st = "running"]
    /\ schedulerQueue' = [schedulerQueue EXCEPT ![c].max = @ - 1]
    /\ schedRunning' = [schedRunning EXCEPT ![c] = "max"]
    /\ UNCHANGED << base64AudioChunks, websocketAudioBuffer, activeSessions, sessionOpen,
                    currentTranscription, previousTranscription, currentTranscriptionTask,
                    taskQueue, running, transcriptionTimer, newDataAvailable, sinceLastData,
                    firstDataSet, nextTaskId, arrivals, clears, clearedUpTo, sinceArrival,
                    lastSubmit, started, pushes, lastSend, obs >>

\* The max timeout callback, under transcriptionLock.
MaxTimerRun(c) ==
    /\ schedRunning[c] = "max"
    /\ schedRunning' = [schedRunning EXCEPT ![c] = "none"]
    /\ maxTimeoutTimer' = [maxTimeoutTimer EXCEPT ![c] = Complete(@)]
    /\ IF HasAudioData(c) /\ NoActiveTask(c)
       THEN SubmitTask(c, "max")
       ELSE NoSubmit /\ UNCHANGED newDataAvailable
    /\ obs' = [obs EXCEPT ![c] = ObsOff]
    /\ UNCHANGED << base64AudioChunks, websocketAudioBuffer, activeSessions, sessionOpen,
                    currentTranscription, previousTranscription, running, transcriptionTimer,
                    sinceLastData, firstDataSet, arrivals, clears, clearedUpTo, sinceArrival,
                    started, pushes, lastSend, schedulerQueue >>

\* clearAll()
ClearAll(c) ==
    LET f == currentTranscriptionTask[c]
        hit(t) == f.st = "new" /\ t.id = f.id
    IN
    /\ clears < MaxClears
    /\ transcriptionTimer' = [transcriptionTimer EXCEPT ![c] = CancelTimer(@)]
    /\ schedulerQueue' = [schedulerQueue EXCEPT ![c].silence =
                             Uncancelled(@, transcriptionTimer[c])]
    /\ currentTranscriptionTask' =
          [currentTranscriptionTask EXCEPT ![c] = IF f.st = "new" THEN [f EXCEPT !.st = "cancelled"] ELSE f]
    /\ taskQueue' = [taskQueue EXCEPT ![c] =
          [i \in 1..Len(@) |-> IF hit(@[i]) THEN [@[i] EXCEPT !.cancelled = TRUE] ELSE @[i]]]
    /\ running' = [running EXCEPT ![c] =
          {IF hit(t) THEN [t EXCEPT !.cancelled = TRUE] ELSE t : t \in @}]
    /\ currentTranscription' = [currentTranscription EXCEPT ![c] = <<>>]
    /\ previousTranscription' = [previousTranscription EXCEPT ![c] = <<>>]
    /\ base64AudioChunks' = <<>>
    /\ websocketAudioBuffer' = [websocketAudioBuffer EXCEPT ![c] = <<>>]
    /\ newDataAvailable' = [newDataAvailable EXCEPT ![c] = FALSE]
    /\ clears' = clears + 1
    /\ clearedUpTo' = [clearedUpTo EXCEPT ![c] = Len(arrivals)]
    /\ lastSend' = [lastSend EXCEPT ![c].clearing = TRUE]
    /\ obs' = [obs EXCEPT ![c] = ObsOff]
    /\ UNCHANGED << activeSessions, sessionOpen, maxTimeoutTimer, schedRunning,
                    sinceLastData, firstDataSet, nextTaskId, arrivals, sinceArrival,
                    lastSubmit, started, pushes >>

\* ------------------------------------------- the transcription task
NewRun(id) == [id |-> id, pc |-> "cancelSilence", audio |-> <<>>, tries |-> 0,
               cancelled |-> FALSE, left |-> 0]

\* The worker thread of transcriptionExecutor takes the next queued task; a
\* FutureTask cancelled while queued returns at once.
ExecutorTake(c) ==
    /\ taskQueue[c] # <<>>
    /\ WorkerFree(c)
    /\ taskQueue' = [taskQueue EXCEPT ![c] = Tail(@)]
    /\ running' = [running EXCEPT ![c] =
                      IF Head(taskQueue[c]).cancelled THEN @
                      ELSE @ \cup {NewRun(Head(taskQueue[c]).id)}]
    /\ UNCHANGED << base64AudioChunks, websocketAudioBuffer, activeSessions, sessionOpen,
                    currentTranscription, previousTranscription, currentTranscriptionTask,
                    transcriptionTimer, maxTimeoutTimer, schedRunning, newDataAvailable,
                    sinceLastData, firstDataSet, nextTaskId, arrivals, clears, clearedUpTo,
                    sinceArrival, lastSubmit, started, pushes, lastSend, obs,
                    schedulerQueue >>

\* Task t goes on to `next`.
Goto(c, t, next) == running' = [running EXCEPT ![c] = (@ \ {t}) \cup {next}]

\* startTranscription returns: the worker is free and the Future completes
\* unless it was cancelled.
Finish(c, t) ==
    /\ running' = [running EXCEPT ![c] = @ \ {t}]
    /\ currentTranscriptionTask' =
          [currentTranscriptionTask EXCEPT ![c] =
              IF @.id = t.id /\ @.st = "new" THEN [@ EXCEPT !.st = "done"] ELSE @]

\* startTranscription, outside the lock: transcriptionTimer.cancel(false)
TaskCancelSilence(c) ==
    \E t \in running[c] :
        /\ t.pc = "cancelSilence"
        /\ transcriptionTimer' = [transcriptionTimer EXCEPT ![c] = CancelTimer(@)]
        /\ schedulerQueue' = [schedulerQueue EXCEPT ![c].silence =
                                 Uncancelled(@, transcriptionTimer[c])]
        /\ Goto(c, t, [t EXCEPT !.pc = "cancelMax"])
        /\ UNCHANGED << base64AudioChunks, websocketAudioBuffer, activeSessions, sessionOpen,
                        currentTranscription, previousTranscription, currentTranscriptionTask,
                        taskQueue, maxTimeoutTimer, schedRunning, newDataAvailable,
                        sinceLastData, firstDataSet, nextTaskId, arrivals, clears,
                        clearedUpTo, sinceArrival, lastSubmit, started, pushes, lastSend, obs >>

\* startTranscription, outside the lock: maxTimeoutTimer.cancel(false)
TaskCancelMax(c) ==
    \E t \in running[c] :
        /\ t.pc = "cancelMax"
        /\ maxTimeoutTimer' = [maxTimeoutTimer EXCEPT ![c] = CancelTimer(@)]
        /\ schedulerQueue' = [schedulerQueue EXCEPT ![c].max =
                                 Uncancelled(@, maxTimeoutTimer[c])]
        /\ Goto(c, t, [t EXCEPT !.pc = "resetFirst"])
        /\ UNCHANGED << base64AudioChunks, websocketAudioBuffer, activeSessions, sessionOpen,
                        currentTranscription, previousTranscription, currentTranscriptionTask,
                        taskQueue, transcriptionTimer, schedRunning, newDataAvailable,
                        sinceLastData, firstDataSet, nextTaskId, arrivals, clears,
                        clearedUpTo, sinceArrival, lastSubmit, started, pushes, lastSend, obs >>

\* startTranscription, outside the lock: firstDataAddedTimestamp = 0
TaskResetFirst(c) ==
    \E t \in running[c] :
        /\ t.pc = "resetFirst"
        /\ firstDataSet' = [firstDataSet EXCEPT ![c] = FALSE]
        /\ Goto(c, t, [t EXCEPT !.pc = "assemble"])
        /\ UNCHANGED << base64AudioChunks, websocketAudioBuffer, activeSessions, sessionOpen,
                        currentTranscription, previousTranscription, currentTranscriptionTask,
                        taskQueue, transcriptionTimer, maxTimeoutTimer, schedRunning,
                        newDataAvailable, sinceLastData, nextTaskId, arrivals, clears,
                        clearedUpTo, sinceArrival, lastSubmit, started, pushes, lastSend, obs,
                        schedulerQueue >>

AllLo == Max(clearedUpTo["A"], clearedUpTo["B"])

\* startTranscription, the synchronized block: the payload is assembled; with no
\* audio data, or no decoded byte, the task ends.
TaskAssemble(c) ==
    \E t \in running[c] :
        /\ t.pc = "assemble"
        /\ IF HasAudioData(c) /\ Len(CombinedBuffer(c)) > 0
           THEN /\ Goto(c, t, [t EXCEPT !.pc = "call", !.audio = CombinedBuffer(c)])
                /\ started' = [started EXCEPT ![c] =
                                  [id |-> t.id, audio |-> CombinedBuffer(c), allLo |-> AllLo,
                                   ownLo |-> clearedUpTo[c], hi |-> Len(arrivals)]]
                /\ UNCHANGED currentTranscriptionTask
           ELSE /\ Finish(c, t)
                /\ UNCHANGED started
        /\ UNCHANGED << base64AudioChunks, websocketAudioBuffer, activeSessions, sessionOpen,
                        currentTranscription, previousTranscription, taskQueue,
                        transcriptionTimer, maxTimeoutTimer, schedRunning, newDataAvailable,
                        sinceLastData, firstDataSet, nextTaskId, arrivals, clears,
                        clearedUpTo, sinceArrival, lastSubmit, pushes, lastSend, obs,
                        schedulerQueue >>

OpenSessions(c) == {s \in activeSessions[c] : sessionOpen[s]}

\* A send of every result, a repeated one too.
AlwaysSend(c, text) == activeSessions[c] # {}

\* if (!transcription.equals(previousTranscription) && !activeSessions.isEmpty())
ShouldSend(c, text) == text # previousTranscription[c] /\ activeSessions[c] # {}

\* A fan-out that the first failing send ends: no session after it is sent to
\* and no session is removed.
SendUntilFailure(c, text, failing) ==
    LET open == OpenSessions(c)
        hit == ShouldSend(c, text)
        reached == IF failing = {} THEN open ELSE {}
    IN
    /\ failing \subseteq open
    /\ ~hit => failing = {}
    /\ previousTranscription' =
          [previousTranscription EXCEPT ![c] = IF hit THEN text ELSE @]
    /\ pushes' = [s \in Sessions |->
                    IF hit /\ s \in reached THEN Append(pushes[s], text) ELSE pushes[s]]
    /\ activeSessions' = [activeSessions EXCEPT ![c] =
                             IF hit /\ failing = {} THEN @ \ (@ \ open) ELSE @]
    /\ lastSend' = [lastSend EXCEPT ![c] =
                      [n |-> Min(@.n + 1, 2), text |-> text, prevText |-> @.text,
                       changed |-> text # previousTranscription[c],
                       prevChanged |-> @.changed,
                       open |-> open, prevOpen |-> @.open,
                       sentTo |-> IF hit THEN reached ELSE {},
                       prevSentTo |-> @.sentTo,
                       failed |-> failing, prevFailed |-> @.failed,
                       cleared |-> @.clearing, clearing |-> FALSE]]

\* sendTranscriptionToWebSockets(transcription); sendMessage throws IOException
\* for the sessions in `failing`.
SendTranscriptionToWebSockets(c, text, failing) ==
    LET open == OpenSessions(c)
        hit == ShouldSend(c, text)
        closedSessions == (activeSessions[c] \ open) \cup failing
    IN
    /\ failing \subseteq open
    /\ ~hit => failing = {}
    /\ previousTranscription' =
          [previousTranscription EXCEPT ![c] = IF hit THEN text ELSE @]
    /\ pushes' = [s \in Sessions |->
                    IF hit /\ s \in open \ failing THEN Append(pushes[s], text) ELSE pushes[s]]
    /\ activeSessions' = [activeSessions EXCEPT ![c] = IF hit THEN @ \ closedSessions ELSE @]
    /\ lastSend' = [lastSend EXCEPT ![c] =
                      [n |-> Min(@.n + 1, 2), text |-> text, prevText |-> @.text,
                       changed |-> text # previousTranscription[c],
                       prevChanged |-> @.changed,
                       open |-> open, prevOpen |-> @.open,
                       sentTo |-> IF hit THEN open \ failing ELSE {},
                       prevSentTo |-> @.sentTo,
                       failed |-> failing, prevFailed |-> @.failed,
                       cleared |-> @.clearing, clearing |-> FALSE]]

\* transcribeAudio: the service answers with text `result`.
TaskResult(c, result, failing) ==
    \E t \in running[c] :
        /\ t.pc = "call"
        /\ IF Trim(result) # <<>>
           THEN /\ currentTranscription' = [currentTranscription EXCEPT ![c] = Trim(result)]
                /\ SendTranscriptionToWebSockets(c, Trim(result), failing)
           ELSE /\ failing = {}
                /\ UNCHANGED << currentTranscription, previousTranscription, pushes,
                                activeSessions, lastSend >>
        /\ Finish(c, t)
        /\ UNCHANGED << base64AudioChunks, websocketAudioBuffer, sessionOpen, taskQueue,
                        transcriptionTimer, maxTimeoutTimer, schedRunning, newDataAvailable,
                        sinceLastData, firstDataSet, nextTaskId, arrivals, clears,
                        clearedUpTo, sinceArrival, lastSubmit, started, obs,
                        schedulerQueue >>

\* transcribeAudio: the call throws something other than a rate limit.
TaskFails(c) ==
    \E t \in running[c] :
        /\ t.pc = "call"
        /\ Finish(c, t)
        /\ UNCHANGED << base64AudioChunks, websocketAudioBuffer, activeSessions, sessionOpen,
                        currentTranscription, previousTranscription, taskQueue,
                        transcriptionTimer, maxTimeoutTimer, schedRunning, newDataAvailable,
                        sinceLastData, firstDataSet, nextTaskId, arrivals, clears,
                        clearedUpTo, sinceArrival, lastSubmit, started, pushes, lastSend, obs,
                        schedulerQueue >>

TaskOnly(c, t, next) ==
    /\ Goto(c, t, next)
    /\ UNCHANGED << base64AudioChunks, websocketAudioBuffer, activeSessions, sessionOpen,
                    currentTranscription, previousTranscription, currentTranscriptionTask,
                    taskQueue, transcriptionTimer, maxTimeoutTimer, schedRunning,
                    newDataAvailable, sinceLastData, firstDataSet, nextTaskId, arrivals,
                    clears, clearedUpTo, sinceArrival, lastSubmit, started, pushes,
                    lastSend, obs, schedulerQueue >>

\* transcribeAudio: HTTP 429, then Thread.sleep(retryAfterSeconds * 1000).
TaskRateLimited(c) ==
    \E t \in running[c] :
        /\ t.pc = "call"
        /\ t.tries < MaxRetries
        /\ TaskOnly(c, t, [t EXCEPT !.pc = "sleep", !.left = RetryTicks, !.tries = @ + 1])

\* The sleep ends: transcribeAudio(audioData, transcriptionId) again.
TaskWake(c) ==
    \E t \in running[c] :
        /\ t.pc = "sleep"
        /\ t.left = 0
        /\ ~t.cancelled
        /\ TaskOnly(c, t, [t EXCEPT !.pc = "call"])

\* cancel(true) interrupts the sleep: InterruptedException, the task ends.
TaskSleepInterrupted(c) ==
    \E t \in running[c] :
        /\ t.pc = "sleep"
        /\ t.cancelled
        /\ Finish(c, t)
        /\ UNCHANGED << base64AudioChunks, websocketAudioBuffer, activeSessions, sessionOpen,
                        currentTranscription, previousTranscription, taskQueue,
                        transcriptionTimer, maxTimeoutTimer, schedRunning, newDataAvailable,
                        sinceLastData, firstDataSet, nextTaskId, arrivals, clears,
                        clearedUpTo, sinceArrival, lastSubmit, started, pushes, lastSend, obs,
                        schedulerQueue >>

\* ---------------------------------------------------------------- time
Due(t, d) == t.st = "pending" /\ t.left < d
Elapse(t, d) == IF t.st = "pending" THEN [t EXCEPT !.left = @ - d] ELSE t

\* d ticks pass: no callback is due or running meanwhile, no sleep ends.
Tick(d) ==
    /\ \A c \in Clients :
          /\ schedRunning[c] = "none"
          /\ ~Due(transcriptionTimer[c], d)
          /\ ~Due(maxTimeoutTimer[c], d)
          /\ \A t \in running[c] : t.pc = "sleep" => t.left >= d /\ ~t.cancelled
    /\ transcriptionTimer' = [c \in Clients |-> Elapse(transcriptionTimer[c], d)]
    /\ maxTimeoutTimer' = [c \in Clients |-> Elapse(maxTimeoutTimer[c], d)]
    /\ running' = [c \in Clients |->
                     {IF t.pc = "sleep" THEN [t EXCEPT !.left = @ - d] ELSE t : t \in running[c]}]
    /\ sinceLastData' = [c \in Clients |-> Min(sinceLastData[c] + d, SilenceTicks)]
    /\ sinceArrival' = [c \in Clients |-> Min(sinceArrival[c] + d, SilenceTicks)]
    /\ obs' = [c \in Clients |->
                 IF obs[c].phase = "second"
                 THEN [obs[c] EXCEPT !.clock = Min(@ + d, 2 * SilenceTicks)]
                 ELSE IF obs[c].phase = "armed" /\ obs[c].clock + d < SilenceTicks
                      THEN [obs[c] EXCEPT !.clock = @ + d]
                      ELSE IF obs[c].phase = "fired" THEN obs[c] ELSE ObsOff]
    /\ UNCHANGED << base64AudioChunks, websocketAudioBuffer, activeSessions, sessionOpen,
                    currentTranscription, previousTranscription, currentTranscriptionTask,
                    taskQueue, schedRunning, newDataAvailable, firstDataSet, nextTaskId,
                    arrivals, clears, clearedUpTo, lastSubmit, started, pushes, lastSend,
                    schedulerQueue >>

\* ------------------------------------------------- the server's steps
TimersAndTasks(c) ==
    \/ SilenceTimerStart(c)
    \/ SilenceTimerRun(c)
    \/ MaxTimerStart(c)
    \/ MaxTimerRun(c)
    \/ ExecutorTake(c)
    \/ TaskCancelSilence(c)
    \/ TaskCancelMax(c)
    \/ TaskResetFirst(c)
    \/ TaskAssemble(c)
    \/ TaskFails(c)

\* The model takes MaxChunks chunks.
MoreChunks == Len(arrivals) < MaxChunks

StreamSeconds == MAX_AUDIO_TIMEOUT_SECONDS + 1

InitStream == stream = [phase |-> "idle", clock |-> 0, sent |-> FALSE, tasks |-> 0, by |-> 0]

NoOutcome == [id |-> 0, kind |-> "none", text |-> <<>>]
InitOutcome == serviceAnswer = NoOutcome

\* ------------------------------------------------- InstanceManager
Threads == {"t1", "t2", "t3"}
KnownKinds == {"FunctionResolver", "Transcriber"}
Kinds == KnownKinds \cup {"Recorder"}

\* What a call throws: the exception's type, its message (text and class name)
\* and the type of its cause.
NoError == [type |-> "none", message |-> <<>>, cause |-> "none"]
\* instances.computeIfAbsent on a null reference
NullPointer == [type |-> "NullPointerException", message |-> <<>>, cause |-> "none"]
\* throw new RuntimeException("Failed to create instance for " + className, e)
CreationFailed(className, e) ==
    [type |-> "RuntimeException",
     message |-> << "Failed to create instance for ", className >>,
     cause |-> e]

\* createNewInstance(className), the constructor failing or not: what it throws,
\* NoError when it returns the new instance.
CreateNewInstance(className, ctorFails) ==
    IF className \notin KnownKinds THEN CreationFailed(className, "IllegalArgumentException")
    ELSE IF ctorFails THEN CreationFailed(className, "Exception")
    ELSE NoError

Idle == [pc |-> "idle", clientId |-> "A", className |-> "Transcriber", instances |-> 0,
         result |-> 0, epoch |-> 0, returnedAt |-> 0, error |-> NoError]

InitIM ==
    /\ clientInstances = [c \in Clients |-> 0]
    /\ maps = <<>>
    /\ created = <<>>
    /\ call = [t \in Threads |-> Idle]
    /\ removes = [c \in Clients |-> 0]

\* A thread enters getInstance(clientId, className).
GetInstance(t, c, k) ==
    /\ call[t].pc = "idle"
    /\ call' = [call EXCEPT ![t] = [Idle EXCEPT !.pc = "putIfAbsent", !.clientId = c,
                                                !.className = k, !.epoch = removes[c]]]
    /\ UNCHANGED << clientInstances, maps, created, removes >>

\* Map.put: the new value replaces the mapping.
Put(cur, fresh) == fresh

\* ConcurrentHashMap.putIfAbsent: the mapping stays when there is one.
PutIfAbsent(cur, fresh) == IF cur = 0 THEN fresh ELSE cur

\* clientInstances.putIfAbsent(clientId, new ConcurrentHashMap<>())
GetInstancePut(t) ==
    LET c == call[t].clientId
        fresh == Len(maps) + 1
    IN
    /\ call[t].pc = "putIfAbsent"
    /\ clientInstances' = [clientInstances EXCEPT ![c] = PutIfAbsent(@, fresh)]
    /\ maps' = IF clientInstances'[c] = fresh
               THEN Append(maps, [k \in Kinds |-> 0]) ELSE maps
    /\ call' = [call EXCEPT ![t].pc = "get"]
    /\ UNCHANGED << created, removes >>

\* instances = clientInstances.get(clientId): null when the client was removed
GetInstanceGet(t) ==
    /\ call[t].pc = "get"
    /\ call' = [call EXCEPT ![t].pc = "computeIfAbsent",
                            ![t].instances = clientInstances[call[t].clientId]]
    /\ UNCHANGED << clientInstances, maps, created, removes >>

\* return instances.computeIfAbsent(className, k -> createNewInstance(className)):
\* atomic for the key; a null `instances`, an unknown className or a failing
\* constructor throws and leaves the map as it was.
GetInstanceCompute(t, ctorFails) ==
    LET m == call[t].instances
        k == call[t].className
        fresh == Len(created) + 1
        e == CreateNewInstance(k, ctorFails)
    IN
    /\ call[t].pc = "computeIfAbsent"
    /\ IF m = 0
       THEN /\ ~ctorFails
            /\ call' = [call EXCEPT ![t].pc = "thrown", ![t].error = NullPointer]
            /\ UNCHANGED << maps, created >>
       ELSE IF maps[m][k] # 0
       THEN /\ ~ctorFails
            /\ call' = [call EXCEPT ![t].pc = "returned", ![t].result = maps[m][k],
                                    ![t].returnedAt = removes[call[t].clientId]]
            /\ UNCHANGED << maps, created >>
       ELSE IF e # NoError
       THEN /\ k \notin KnownKinds => ~ctorFails
            /\ call' = [call EXCEPT ![t].pc = "thrown", ![t].error = e]
            /\ UNCHANGED << maps, created >>
       ELSE /\ created' = Append(created, [clientId |-> call[t].clientId, className |-> k,
                                           epoch |-> call[t].epoch])
            /\ maps' = [maps EXCEPT ![m][k] = fresh]
            /\ call' = [call EXCEPT ![t].pc = "returned", ![t].result = fresh,
                                    ![t].returnedAt = removes[call[t].clientId]]
    /\ UNCHANGED << clientInstances, removes >>

\* removeClient(clientId)
RemoveClient(c) ==
    /\ removes[c] < MaxRemoves
    /\ clientInstances' = [clientInstances EXCEPT ![c] = 0]
    /\ removes' = [removes EXCEPT ![c] = @ + 1]
    /\ UNCHANGED << maps, created, call >>

\* The calls made: a client's two kinds, another client, a kind that is not known.
Targets == { <<"A", "Transcriber">>, <<"A", "FunctionResolver">>, <<"B", "Transcriber">>,
             <<"A", "Recorder">> }

\* Three threads, each with one getInstance call, and removeClient.
NextIM ==
    \/ /\ \E t \in Threads : \E g \in Targets : GetInstance(t, g[1], g[2])
       /\ UNCHANGED notIM
    \/ (\E t \in Threads : GetInstancePut(t)) /\ UNCHANGED notIM
    \/ (\E t \in Threads : GetInstanceGet(t)) /\ UNCHANGED notIM
    \/ (\E t \in Threads : \E ctorFails \in BOOLEAN : GetInstanceCompute(t, ctorFails))
          /\ UNCHANGED notIM
    \/ RemoveClient("A") /\ UNCHANGED notIM

\* ------------------------------------- SpeechFunctionCaller: polling
PollTexts == {"", "one", "two"}

InitPoll ==
    /\ capturing = FALSE
    /\ chunkIntervalId = FALSE
    /\ audioChunks = FALSE
    /\ audioWebHandler = FALSE
    /\ isPolling = FALSE
    /\ lastTranscription = ""
    /\ backoffDelay = minDelay * Resolution
    /\ inFlight = 0
    /\ scheduled = 0
    /\ unchanged = 0
    /\ errored = FALSE
    /\ lastPoll = "none"

\* toggleCapture(): off clears the interval (stopContinuousRecording), on starts
\* the recorder with no chunks and sets the interval (startContinuousRecording).
ToggleCapture ==
    /\ capturing' = ~capturing
    /\ chunkIntervalId' = ~capturing
    /\ audioChunks' = IF capturing THEN audioChunks ELSE FALSE
    /\ UNCHANGED << audioWebHandler, isPolling, lastTranscription, backoffDelay, inFlight,
                    scheduled, unchanged, errored, lastPoll >>

\* mediaRecorder.ondataavailable: audioChunks.push(event.data)
DataAvailable ==
    /\ capturing
    /\ ~audioChunks
    /\ audioChunks' = TRUE
    /\ UNCHANGED << capturing, chunkIntervalId, audioWebHandler, isPolling,
                    lastTranscription, backoffDelay, inFlight, scheduled, unchanged,
                    errored, lastPoll >>

\* setAudioWebHandler(url, clientId)
SetAudioWebHandler ==
    /\ ~audioWebHandler
    /\ audioWebHandler' = TRUE
    /\ UNCHANGED << capturing, chunkIntervalId, audioChunks, isPolling, lastTranscription,
                    backoffDelay, inFlight, scheduled, unchanged, errored, lastPoll >>

\* The interval callback of startContinuousRecording, where it reaches the
\* polling: isPolling = true; pollWithBackoff(), which sends a poll.
IntervalTick ==
    /\ chunkIntervalId
    /\ capturing /\ audioChunks
    /\ ~audioWebHandler
    /\ inFlight + scheduled < MaxPollChains
    /\ isPolling' = TRUE
    /\ inFlight' = inFlight + 1
    /\ UNCHANGED << capturing, chunkIntervalId, audioChunks, audioWebHandler,
                    lastTranscription, backoffDelay, scheduled, unchanged, errored,
                    lastPoll >>

\* this.backoffDelay * 1.05 in 1/Resolution ms
Grow(d) == (d * 105) \div 100

\* A backoff with no ceiling.
UncappedBackoff(d) == Grow(d)

\* Math.min(this.backoffDelay * 1.05, this.maxDelay)
Backoff(d) == Min(Grow(d), maxDelay * Resolution)

\* The end of pollWithBackoff: the poll is over and, while polling, the next
\* one is scheduled.
Reschedule ==
    /\ inFlight' = inFlight - 1
    /\ scheduled' = IF isPolling THEN scheduled + 1 ELSE scheduled

\* pollWithBackoff after the await: the response carries `text`.
PollResponse(text) ==
    /\ inFlight > 0
    /\ IF text # lastTranscription
       THEN /\ lastTranscription' = text
            /\ backoffDelay' = minDelay * Resolution
            /\ unchanged' = 0
            /\ errored' = FALSE
            /\ lastPoll' = "changed"
       ELSE /\ unchanged < MaxUnchanged
            /\ backoffDelay' = Backoff(backoffDelay)
            /\ unchanged' = unchanged + 1
            /\ lastPoll' = "unchanged"
            /\ UNCHANGED << lastTranscription, errored >>
    /\ Reschedule
    /\ UNCHANGED << capturing, chunkIntervalId, audioChunks, audioWebHandler, isPolling >>

\* pollWithBackoff through its catch: the request failed or the response does
\* not parse (text is lastTranscription), or handling the new transcription
\* `text` threw after lastTranscription was set.
PollError(text) ==
    /\ inFlight > 0
    /\ lastTranscription' = text
    /\ backoffDelay' = maxDelay * Resolution
    /\ errored' = TRUE
    /\ lastPoll' = "error"
    /\ Reschedule
    /\ UNCHANGED << capturing, chunkIntervalId, audioChunks, audioWebHandler, isPolling,
                    unchanged >>

\* reset(): capture is toggled off if on, the chunks and lastTranscription are cleared.
Reset ==
    /\ capturing' = FALSE
    /\ chunkIntervalId' = IF capturing THEN FALSE ELSE chunkIntervalId
    /\ audioChunks' = FALSE
    /\ lastTranscription' = ""
    /\ UNCHANGED << audioWebHandler, isPolling, backoffDelay, inFlight, scheduled,
                    unchanged, errored, lastPoll >>

\* The setTimeout callback: pollWithBackoff() sends the next poll while polling.
TimeoutFires ==
    /\ scheduled > 0
    /\ scheduled' = scheduled - 1
    /\ inFlight' = IF isPolling THEN inFlight + 1 ELSE inFlight
    /\ UNCHANGED << capturing, chunkIntervalId, audioChunks, audioWebHandler, isPolling,
                    lastTranscription, backoffDelay, unchanged, errored, lastPoll >>

\* The client: capture toggled, chunks recorded, interval ticks and polls.
NextPoll ==
    \/ ToggleCapture /\ UNCHANGED notPoll
    \/ DataAvailable /\ UNCHANGED notPoll
    \/ SetAudioWebHandler /\ UNCHANGED notPoll
    \/ IntervalTick /\ UNCHANGED notPoll
    \/ (\E text \in PollTexts : PollResponse(text)) /\ UNCHANGED notPoll
    \/ (\E text \in PollTexts : PollError(text)) /\ UNCHANGED notPoll
    \/ Reset /\ UNCHANGED notPoll
    \/ TimeoutFires /\ UNCHANGED notPoll

\* ------------------------------------------------- FunctionResolver
Queries == {"q1", "q2"}
Summaries == {"sum1"}
\* What the model answers, or that the call throws.
Outcomes == {"message", "functions", "functions-error", "llm-fail"}
\* What the summarizing call answers, or that it throws.
SummarizerResults == Summaries \cup {"fail"}
\* The names of the tools, and the tool calls of a response that has any.
ToolNames == {"setValue", "click"}
ToolCallLists == { <<"setValue">>, <<"setValue", "click">>, <<"click", "setValue">> }
\* What choice.getMessage().getToolCalls() holds for each answer.
ToolCallsOf(outcome) == IF outcome = "functions" THEN ToolCallLists ELSE {<<>>}

Range(q) == {q[i] : i \in 1..Len(q)}

NoRound == [n |-> 0, query |-> "", outcome |-> "none", result |-> "none", reached |-> 0,
            turns |-> {}, compressed |-> FALSE, summarized |-> "none",
            toolCalls |-> <<>>, functions |-> <<>>, appended |-> <<>>]
NoMessages == [summary |-> "", history |-> <<>>, query |-> ""]

InitFR ==
    /\ contextHistory = <<>>
    /\ contextSummary = ""
    /\ query = ""
    /\ chatMessages = NoMessages
    /\ rounds = 0
    /\ lastRound = NoRound
    /\ prevRound = NoRound
    /\ tools = <<>>

\* setQuery(query)
SetQuery(q) ==
    /\ query # q
    /\ query' = q
    /\ UNCHANGED << contextHistory, contextSummary, chatMessages, rounds, lastRound,
                    prevRound, tools >>

\* addTool(toolJSON): a definition with name, description and parameters is
\* appended; anything else throws and leaves the list as it was.
AddTool(name, valid) ==
    /\ Len(tools) < MaxTools
    /\ valid
    /\ tools' = Append(tools, name)
    /\ UNCHANGED << contextHistory, contextSummary, query, chatMessages, rounds,
                    lastRound, prevRound >>

\* resetTools()
ResetTools ==
    /\ tools # <<>>
    /\ tools' = <<>>
    /\ UNCHANGED << contextHistory, contextSummary, query, chatMessages, rounds,
                    lastRound, prevRound >>

\* if (contextHistory.size() >= COMPRESSION_THRESHOLD * 2)
NeedsCompression(h) == Len(h) >= COMPRESSION_THRESHOLD * 2

\* The functions array with the first tool call only.
FirstCallOnly(toolCalls) == IF toolCalls = <<>> THEN <<>> ELSE << Head(toolCalls) >>

\* for (toolCall : choice.getMessage().getToolCalls()) functionsArray.add(...)
RECURSIVE FunctionsArray(_)
FunctionsArray(toolCalls) ==
    IF toolCalls = <<>> THEN <<>>
    ELSE << Head(toolCalls) >> \o FunctionsArray(Tail(toolCalls))

\* new ChatRequestUserMessage(query), in round n
UserMessage(q, n) == [kind |-> "query", text |-> q, n |-> n]

\* new ChatRequestUserMessage("For context, last LLM Response: " + finalResponse)
PreviousResponse(q, n) == [kind |-> "response", text |-> q, n |-> n]

\* resolveFunctions(): the model answers with `outcome`, and the summarizing
\* call, if it is made, with `sres`.
ResolveFunctions(outcome, sres) ==
    \E toolCalls \in ToolCallsOf(outcome) :
    LET n == rounds + 1
        h1 == Append(contextHistory, UserMessage(query, n))
        h2 == Append(h1, PreviousResponse(query, n))
        \* the history at the compression check, if the check is reached
        h == IF outcome = "functions" THEN h2 ELSE h1
        checked == outcome \in {"message", "functions"}
        compress == checked /\ NeedsCompression(h)
        done == compress /\ sres # "fail"
    IN
    /\ rounds < MaxRounds
    /\ ~compress => sres = "fail"
    /\ rounds' = n
    /\ chatMessages' = [summary |-> contextSummary, history |-> contextHistory,
                        query |-> query]
    /\ contextHistory' = IF done THEN <<>> ELSE h
    /\ contextSummary' = IF done THEN sres ELSE contextSummary
    /\ prevRound' = lastRound
    /\ lastRound' =
          [n |-> n, query |-> query, outcome |-> outcome,
           result |-> CASE outcome = "llm-fail" -> "thrown"
                        [] outcome = "functions-error" -> "error"
                        [] outcome = "functions" -> IF compress /\ ~done THEN "error" ELSE "functions"
                        [] outcome = "message" -> IF compress /\ ~done THEN "thrown" ELSE "message",
           reached |-> Len(h), turns |-> Range(h),
           compressed |-> done,
           summarized |-> IF done THEN sres ELSE "none",
           toolCalls |-> toolCalls,
           functions |-> IF outcome = "functions" THEN FunctionsArray(toolCalls) ELSE <<>>,
           appended |-> SubSeq(h, Len(contextHistory) + 1, Len(h))]
    /\ UNCHANGED << query, tools >>

\* clearAll()
ResolverClearAll ==
    /\ contextHistory' = <<>>
    /\ contextSummary' = ""
    /\ lastRound' = NoRound
    /\ prevRound' = NoRound
    /\ UNCHANGED << query, chatMessages, rounds, tools >>

\* One FunctionResolver: queries, resolution rounds of every outcome, clearAll.
NextFR ==
    \/ (\E q \in Queries : SetQuery(q)) /\ UNCHANGED notFR
    \/ /\ \E outcome \in Outcomes : \E sres \in SummarizerResults :
             ResolveFunctions(outcome, sres)
       /\ UNCHANGED notFR
    \/ ResolverClearAll /\ UNCHANGED notFR

\* One FunctionResolver and its tools: registration, a few rounds, clearAll.
NextTools ==
    \/ (\E q \in Queries : SetQuery(q)) /\ UNCHANGED notFR
    \/ (\E name \in ToolNames : \E valid \in BOOLEAN : AddTool(name, valid))
          /\ UNCHANGED notFR
    \/ ResetTools /\ UNCHANGED notFR
    \/ /\ rounds < MaxToolRounds
       /\ \E outcome \in Outcomes : \E sres \in SummarizerResults :
             ResolveFunctions(outcome, sres)
       /\ UNCHANGED notFR
    \/ ResolverClearAll /\ UNCHANGED notFR

\* ------------------------------- SpeechFunctionCaller: tool schemas
\* Schema generators: two that return a schema object built from the page, one
\* that returns no object.
Generators == {"f", "g", "noObject"}
\* Generators that fail: one that throws, one that returns null.
FaultyGenerators == {"throws", "returnsNull"}
AllGenerators == Generators \cup FaultyGenerators
\* What addToolSchema may be handed.
Registrable == Generators \cup {"notAFunction"}
PageStates == {"page1", "page2"}

InitSchemas ==
    /\ toolSchemas = <<>>
    /\ pageState = "page1"
    /\ evaluations = [gen \in AllGenerators |-> 0]
    /\ schemaCalls = 0
    /\ lastSchemas = <<>>

\* A registration that calls the generator at once.
CallGenerator(gen) == [evaluations EXCEPT ![gen] = @ + 1]

\* this.toolSchemas.push(schemaGenerator): the function is stored, not called.
StoreGenerator(gen) == evaluations

\* addToolSchema(schemaGenerator)
AddToolSchema(x) ==
    /\ Len(toolSchemas) < MaxSchemas
    /\ x \in AllGenerators
    /\ toolSchemas' = Append(toolSchemas, x)
    /\ evaluations' = StoreGenerator(x)
    /\ UNCHANGED << pageState, schemaCalls, lastSchemas >>

\* The decorator FunctionCall(schemaGenerator) on a method: the generator is
\* kept in target.__schemas__ and handed to addToolSchema.
FunctionCall(gen) == AddToolSchema(gen)

\* The page changes: the elements the generators list are others now.
PageChanges ==
    /\ pageState' = IF pageState = "page1" THEN "page2" ELSE "page1"
    /\ UNCHANGED << toolSchemas, evaluations, schemaCalls, lastSchemas >>

\* await generator() on the page as it is: what it returns, or that it threw.
Produce(gen, page) ==
    IF gen = "throws" THEN [threw |-> TRUE, type |-> "undefined", by |-> gen, page |-> page]
    ELSE IF gen = "returnsNull" THEN [threw |-> FALSE, type |-> "null", by |-> gen, page |-> page]
    ELSE IF gen = "noObject" THEN [threw |-> FALSE, type |-> "string", by |-> gen, page |-> page]
    ELSE [threw |-> FALSE, type |-> "object", by |-> gen, page |-> page]

\* typeof schema: "object" for an object and for null.
TypeOf(r) == IF r.type = "null" THEN "object" ELSE r.type

\* JSON.stringify(schema): the text of the object, or the text null.
Stringify(r) ==
    IF r.type = "null" THEN [json |-> "null", by |-> "nobody", page |-> "none"]
    ELSE [json |-> "object", by |-> r.by, page |-> r.page]

\* One entry of the map in getToolSchemas: the text of the schema, or nothing
\* (null, filtered out) when the generator threw or typeof is not "object".
Generate(gen, page) ==
    LET r == Produce(gen, page)
    IN IF r.threw \/ TypeOf(r) # "object" THEN <<>> ELSE << Stringify(r) >>

\* this.toolSchemas.map(generator => generator()), the null results filtered out
RECURSIVE GenerateAll(_, _)
GenerateAll(gens, page) ==
    IF gens = <<>> THEN <<>> ELSE Generate(Head(gens), page) \o GenerateAll(Tail(gens), page)

Count(gens, gen) == Cardinality({i \in 1..Len(gens) : gens[i] = gen})

\* getToolSchemas()
GetToolSchemas ==
    /\ schemaCalls < MaxSchemaCalls
    /\ schemaCalls' = schemaCalls + 1
    /\ evaluations' = [gen \in AllGenerators |-> evaluations[gen] + Count(toolSchemas, gen)]
    /\ lastSchemas' = GenerateAll(toolSchemas, pageState)
    /\ UNCHANGED << toolSchemas, pageState >>

\* The schemas of the tools: registration, page changes, requests.
NextSchemas ==
    \/ (\E x \in Registrable : AddToolSchema(x)) /\ UNCHANGED notSchemas
    \/ (\E gen \in Generators : FunctionCall(gen)) /\ UNCHANGED notSchemas
    \/ PageChanges /\ UNCHANGED notSchemas
    \/ GetToolSchemas /\ UNCHANGED notSchemas

\* Registrations of generators of every kind, page changes, requests.
NextProducers ==
    \/ (\E x \in AllGenerators : AddToolSchema(x)) /\ UNCHANGED notSchemas
    \/ PageChanges /\ UNCHANGED notSchemas
    \/ GetToolSchemas /\ UNCHANGED notSchemas

\* ----------------------------- SpeechFunctionCaller: audio segments
\* The byte lengths of the segments: small, at the ceiling of a frame, just
\* above it, two ceilings and more.
SegmentSizes == {1, 3750, MAX_CHUNK_SIZE, MAX_CHUNK_SIZE + 1, 2 * MAX_CHUNK_SIZE + 1}

InitAudio ==
    /\ segments = <<>>
    /\ frames = <<>>
    /\ posted = <<>>

\* buffer.slice(i, i + MAX_CHUNK_SIZE) of segment `seg` of `len` bytes: the
\* bytes from i up to the end of the slice.
Slice(seg, len, i) == [seg |-> seg, from |-> i, to |-> Min(i + MAX_CHUNK_SIZE, len)]

\* for (let i = 0; i < buffer.byteLength; i += MAX_CHUNK_SIZE) sendBinaryData(slice)
RECURSIVE SplitFrom(_, _, _)
SplitFrom(seg, len, i) ==
    IF i < len THEN << Slice(seg, len, i) >> \o SplitFrom(seg, len, i + MAX_CHUNK_SIZE)
    ELSE <<>>

\* sendBinaryData(buffer): the whole segment in one frame
Whole(seg, len) == [seg |-> seg, from |-> 0, to |-> len]

\* The WebSocket branch of handleAudioChunk: the split or the whole buffer, and
\* then the whole buffer.
BinaryFrames(seg, len) ==
    (IF len > MAX_CHUNK_SIZE THEN SplitFrom(seg, len, 0) ELSE << Whole(seg, len) >>)
        \o << Whole(seg, len) >>

\* The length of the padded Base64 text of `len` bytes.
Base64Length(len) == 4 * ((len + 2) \div 3)

\* The fallback branch of handleAudioChunk: the Base64 text in chunks of
\* CHUNK_SIZE characters, each sent as addBase64Data.
Base64Chunks(seg, len) ==
    [seg |-> seg, chars |-> Base64Length(len),
     chunks |-> (Base64Length(len) + CHUNK_SIZE - 1) \div CHUNK_SIZE]

\* handleAudioChunk(audioBlob) for a segment of `len` bytes
HandleAudioChunk(len) ==
    LET seg == Len(segments) + 1 IN
    /\ Len(segments) < MaxSegments
    /\ segments' = Append(segments, len)
    /\ IF audioWebHandler
       THEN frames' = frames \o BinaryFrames(seg, len) /\ UNCHANGED posted
       ELSE posted' = Append(posted, Base64Chunks(seg, len)) /\ UNCHANGED frames

\* The segments of a capture, before and after a WebSocket handler is set.
NextAudio ==
    \/ SetAudioWebHandler /\ UNCHANGED notPoll
    \/ (\E len \in SegmentSizes : HandleAudioChunk(len)) /\ UNCHANGED notAudio

\* ------------------------- SpeechFunctionCaller: the processing queue
\* The segments the interval callback pushes, numbered in the order of the pushes.
QueueSegments == 1..MaxQueued

InitQueue ==
    /\ processingQueue = <<>>
    /\ isProcessing = FALSE
    /\ chunkState = [i \in QueueSegments |-> [st |-> "none", calls |-> 0]]
    /\ cycles = {}

\* A handleAudioChunk whose failure goes up to its caller.
Uncaught(st) == st = "failed"

\* handleAudioChunk has its whole body in try/catch: its promise is fulfilled
\* also when the handling failed.
Rejects(st) == FALSE

\* Promise.all(promises) is settled: every promise is fulfilled, or one is rejected.
PromiseAllSettled(cyc) ==
    \/ \A i \in cyc : chunkState[i].st \in {"ok", "failed"}
    \/ \E i \in cyc : Rejects(chunkState[i].st)

\* processQueue() up to its await with queue q: nothing if a cycle is under way
\* or q is empty; else every segment of q is handed to handleAudioChunk and the
\* queue is emptied.
ProcessQueue(q) ==
    IF isProcessing \/ q = <<>>
    THEN /\ processingQueue' = q
         /\ UNCHANGED << isProcessing, chunkState, cycles >>
    ELSE /\ isProcessing' = TRUE
         /\ chunkState' = [i \in QueueSegments |->
                              IF i \in Range(q)
                              THEN [st |-> "running", calls |-> chunkState[i].calls + 1]
                              ELSE chunkState[i]]
         /\ processingQueue' = <<>>
         /\ cycles' = cycles \cup {Range(q)}

\* The interval callback with a segment that is not silent:
\* processingQueue.push(audioBlob); if (!isProcessing) processQueue()
PushSegment(i) ==
    /\ chunkState[i].st = "none"
    /\ \A j \in QueueSegments : j < i => chunkState[j].st # "none"
    /\ IF ~isProcessing
       THEN ProcessQueue(Append(processingQueue, i))
       ELSE /\ processingQueue' = Append(processingQueue, i)
            /\ UNCHANGED << isProcessing, cycles >>
            /\ chunkState' = [chunkState EXCEPT ![i].st = "queued"]

\* The handleAudioChunk call of segment i ends, the handling having failed or not.
ChunkSettles(i, fails) ==
    /\ chunkState[i].st = "running"
    /\ chunkState' = [chunkState EXCEPT ![i].st = IF fails THEN "failed" ELSE "ok"]
    /\ UNCHANGED << processingQueue, isProcessing, cycles >>

\* processQueue() after its await: finally { isProcessing = false }
CycleEnds(cyc) ==
    /\ cyc \in cycles
    /\ PromiseAllSettled(cyc)
    /\ isProcessing' = FALSE
    /\ cycles' = cycles \ {cyc}
    /\ UNCHANGED << processingQueue, chunkState >>

\* The client's queue: segments pushed, handled and the drain cycles.
NextQueue ==
    \/ (\E i \in QueueSegments : PushSegment(i)) /\ UNCHANGED notQueue
    \/ (\E i \in QueueSegments : \E fails \in BOOLEAN : ChunkSettles(i, fails))
          /\ UNCHANGED notQueue
    \/ (\E cyc \in cycles : CycleEnds(cyc)) /\ UNCHANGED notQueue

\* ---------------------------- SpeechFunctionCaller: the capture session
\* The interval ticks of one capture session, in the order of their start.
IntervalTicks == 1..MaxTicks

NoTick == [pc |-> "idle", duration |-> 0, start |-> 0]

InitCapture ==
    /\ recordedTime = 0
    /\ lastProcessedTime = 0
    /\ tickRuns = [k \in IntervalTicks |-> NoTick]
    /\ cut = <<>>

\* mediaRecorder.ondataavailable: the recording grows by one unit of time.
RecordAudio ==
    /\ recordedTime < MaxRecorded
    /\ recordedTime' = recordedTime + 1
    /\ UNCHANGED << lastProcessedTime, tickRuns, cut >>

\* The interval callback up to its first await: the Blob of all audioChunks is
\* made and handed to decodeAudioData.
TickStarts(k) ==
    /\ tickRuns[k].pc = "idle"
    /\ \A j \in IntervalTicks : j < k => tickRuns[j].pc # "idle"
    /\ recordedTime > 0
    /\ tickRuns' = [tickRuns EXCEPT ![k] = [pc |-> "decoding", duration |-> recordedTime,
                                             start |-> 0]]
    /\ UNCHANGED << recordedTime, lastProcessedTime, cut >>

\* The callback after decodeAudioData: convertToWAV(audioBuffer, lastProcessedTime)
\* takes the audio from the cursor on, or returns null when there is none.
TickConverts(k) ==
    /\ tickRuns[k].pc = "decoding"
    /\ tickRuns' = [tickRuns EXCEPT ![k] =
                       IF tickRuns[k].duration - lastProcessedTime <= 0
                       THEN [@ EXCEPT !.pc = "done"]
                       ELSE [@ EXCEPT !.pc = "rendering", !.start = lastProcessedTime]]
    /\ UNCHANGED << recordedTime, lastProcessedTime, cut >>

\* The callback after convertToWAV: the segment is pushed unless it is silent,
\* and lastProcessedTime = audioBuffer.duration.
TickFinishes(k, silent) ==
    /\ tickRuns[k].pc = "rendering"
    /\ tickRuns' = [tickRuns EXCEPT ![k].pc = "done"]
    /\ cut' = Append(cut, [from |-> tickRuns[k].start, to |-> tickRuns[k].duration,
                            silent |-> silent])
    /\ lastProcessedTime' = tickRuns[k].duration
    /\ UNCHANGED recordedTime
    /\ IF silent THEN UNCHANGED qvars ELSE \E i \in QueueSegments : PushSegment(i)

\* One capture session: the recorder, the interval ticks, whose callbacks run
\* between each other's awaits, and the handling of the segments pushed.
NextCapture ==
    \/ RecordAudio /\ UNCHANGED << notCapture, qvars >>
    \/ (\E k \in IntervalTicks : TickStarts(k)) /\ UNCHANGED << notCapture, qvars >>
    \/ (\E k \in IntervalTicks : TickConverts(k)) /\ UNCHANGED << notCapture, qvars >>
    \/ (\E k \in IntervalTicks : \E silent \in BOOLEAN : TickFinishes(k, silent))
          /\ UNCHANGED notCapture
    \/ (\E i \in QueueSegments : ChunkSettles(i, FALSE)) /\ UNCHANGED notQueue
    \/ (\E cyc \in cycles : CycleEnds(cyc)) /\ UNCHANGED notQueue

\* ------------------------------- SpeechFunctionCaller: the silence gate
\* Values of signed 16-bit samples, as convertToWAV writes them to its Int16Array.
SampleValues == {0, 1, -1, 300, -300, 32767, -32768}

\* The segments: 1..MaxSamples samples.
RECURSIVE SampleSeqs(_)
SampleSeqs(n) ==
    IF n = 0 THEN {<<>>}
    ELSE SampleSeqs(n - 1) \cup
         {Append(q, v) : q \in {r \in SampleSeqs(n - 1) : Len(r) = n - 1}, v \in SampleValues}

\* The values of the threshold slider; 15000 is the initial one.
Thresholds == {1, 200, 15000}

\* new Blob([int16Array]): each sample as two bytes, the low one first, a
\* negative sample in two's complement.
RECURSIVE PcmBytes(_)
PcmBytes(samples) ==
    IF samples = <<>> THEN <<>>
    ELSE LET u == Head(samples) % 65536
         IN << u % 256, u \div 256 >> \o PcmBytes(Tail(samples))

\* (bytes[i + 1] << 8) | (bytes[i] & 0xFF)
Sample(lo, hi) == hi * 256 + lo

Abs(x) == IF x < 0 THEN -x ELSE x

\* The loop of isSilence: sum += Math.abs(sample) over the pairs of bytes.
RECURSIVE EnergySum(_)
EnergySum(bytes) ==
    IF Len(bytes) < 2 THEN 0
    ELSE Abs(Sample(bytes[1], bytes[2])) + EnergySum(SubSeq(bytes, 3, Len(bytes)))

\* isSilence(bytes): energy = sum / (numBytesRead / 2); energy < threshold, the
\* two sides of the comparison multiplied by the number of bytes.
IsSilence(bytes, threshold) == 2 * EnergySum(bytes) < threshold * Len(bytes)

InitGate == gate = [calls |-> 0, samples |-> <<>>, threshold |-> 0, sum |-> 0, silent |-> FALSE]

\* The interval callback gates a segment: isSilence(bytes) on the bytes of the
\* Blob that convertToWAV returned.
GateSegment(samples, threshold) ==
    /\ gate.calls < MaxGateCalls
    /\ gate' = [calls |-> gate.calls + 1, samples |-> samples, threshold |-> threshold,
                sum |-> EnergySum(PcmBytes(samples)),
                silent |-> IsSilence(PcmBytes(samples), threshold)]

\* Segments of every content gated at every threshold.
NextGate ==
    /\ \E samples \in SampleSeqs(MaxSamples) \ {<<>>} : \E threshold \in Thresholds :
          GateSegment(samples, threshold)
    /\ UNCHANGED notGate

\* ----------------------------- SpeechFunctionCaller: the sequence keys
\* The segments in the order processQueue hands them to handleAudioChunk.
KeyedSegments == 1..MaxKeyed

\* Into how many chunks of CHUNK_SIZE characters a segment is cut.
ChunkCounts == 1..MaxChunkCount

\* By how many milliseconds Date.now() moves from one reading to the next.
ClockSteps == 0..MaxClockStep

InitKeys ==
    /\ clock = 0
    /\ keyed = <<>>

\* The keys of one segment: chunk ix is read at the clock moved on by steps[1..ix+1].
RECURSIVE ReadAt(_, _, _)
ReadAt(from, steps, n) == IF n = 0 THEN from ELSE ReadAt(from, steps, n - 1) + steps[n]

\* `${Date.now()}-${Math.floor(i / this.CHUNK_SIZE)}`
Sequence(ts, ix) == [ts |-> ts, index |-> ix]

\* handleAudioChunk, after its await of arrayBuffer(): the loop that cuts the
\* padded string into n chunks runs to its end without a break, and reads
\* Date.now() once for each chunk. The segments come in the order of the queue.
SplitIntoChunks(seg, n, steps) ==
    /\ seg = IF keyed = <<>> THEN 1 ELSE keyed[Len(keyed)].segment + 1
    /\ keyed' = keyed \o [j \in 1..n |->
                    [segment |-> seg, key |-> Sequence(ReadAt(clock, steps, j), j - 1)]]
    /\ clock' = ReadAt(clock, steps, n)

NextKeys ==
    /\ \E seg \in KeyedSegments : \E n \in ChunkCounts : \E steps \in [1..n -> ClockSteps] :
          SplitIntoChunks(seg, n, steps)
    /\ UNCHANGED notKeys

\* ------------- SpeechFunctionCaller and Transcriber: the Base64 path
\* The byte lengths of a segment: a few bytes, around one chunk of CHUNK_SIZE
\* characters (3750 bytes), around two chunks.
TripLengths == {1, 2, 3, 4, 3749, 3750, 3751, 7500, 7502}

\* The contents of a segment: byte i is Seed + i * Stride, modulo 256.
Seeds == {0, 131, 255}
Strides == {1, 37}
SegmentBytes(len, seed, stride) == [i \in 1..len |-> (seed + i * stride) % 256]

\* btoa(binary): four characters for every three bytes, '=' where a byte lacks.
Btoa(bytes) ==
    [j \in 1..(4 * ((Len(bytes) + 2) \div 3)) |->
        LET g == 3 * ((j - 1) \div 4)
            r == (j - 1) % 4
            byte(k) == IF g + k <= Len(bytes) THEN bytes[g + k] ELSE 0
        IN IF r = 0 THEN byte(1) \div 4
           ELSE IF r = 1 THEN (byte(1) % 4) * 16 + (byte(2) \div 16)
           ELSE IF r = 2 THEN (IF g + 2 <= Len(bytes)
                               THEN (byte(2) % 16) * 4 + (byte(3) \div 64) ELSE Pad)
           ELSE (IF g + 3 <= Len(bytes) THEN byte(3) % 64 ELSE Pad)]

\* arrayBufferToBase64(bytes): the bytes, 8192 at a time, joined to one binary
\* string, and btoa of that string.
ArrayBufferToBase64(bytes) == Btoa(bytes)

\* base64String.padEnd(Math.ceil(base64String.length / 4) * 4, "=")
PadEnd(s) == s \o [i \in 1..((4 - (Len(s) % 4)) % 4) |-> Pad]

\* The decimal digits of a number, as `${...}` writes them.
RECURSIVE Digits(_)
Digits(n) == IF n < 10 THEN <<n>> ELSE Append(Digits(n \div 10), n % 10)

\* for (let i = 0; i < s.length; i += size): s.slice(i, i + size) with the key
\* `${Date.now()}-${Math.floor(i / size)}`; Date.now() is `early` for the
\* chunks before `turn` and `late` from there on.
SplitEvery(s, size, turn) ==
    [k \in 1..((Len(s) + size - 1) \div size) |->
        [sequence |-> Key(Digits(IF k <= turn THEN 99 ELSE 100), Digits(k - 1)),
         data |-> SubSeq(s, (k - 1) * size + 1, Min(k * size, Len(s)))]]

\* The chunks with a size that is no multiple of four.
UnalignedChunks(s, turn) == SplitEvery(s, CHUNK_SIZE + 1, turn)

\* The chunks of handleAudioChunk: CHUNK_SIZE characters each.
AudioChunks(s, turn) == SplitEvery(s, CHUNK_SIZE, turn)

NoTrip == [phase |-> "idle", bytes |-> <<>>, chunks |-> <<>>, sent |-> 0,
           held |-> <<>>, decoded |-> <<>>]

InitTrip == roundTrip = NoTrip

\* handleAudioChunk, the fallback branch up to the first send: the Base64 text,
\* padded and cut into chunks.
EncodeSegment(bytes, turn) ==
    /\ roundTrip.phase = "idle"
    /\ roundTrip' = [roundTrip EXCEPT !.phase = "sending", !.bytes = bytes,
                        !.chunks = AudioChunks(PadEnd(ArrayBufferToBase64(bytes)), turn)]

\* await sendDataToHandler(addBase64Data, chunk): the server puts the chunk
\* into base64AudioChunks under its key.
SendChunk ==
    /\ roundTrip.phase = "sending"
    /\ roundTrip.sent < Len(roundTrip.chunks)
    /\ LET chunk == roundTrip.chunks[roundTrip.sent + 1]
       IN roundTrip' = [roundTrip EXCEPT !.sent = @ + 1,
                           !.held = TreeMapPut(@, chunk.sequence, chunk.data)]

\* startTranscription: every entry of base64AudioChunks decoded on its own, in
\* the order of the map, into combinedBuffer.
DecodeHeld ==
    /\ roundTrip.phase = "sending"
    /\ roundTrip.sent = Len(roundTrip.chunks)
    /\ roundTrip' = [roundTrip EXCEPT !.phase = "decoded", !.decoded = DecodeAll(roundTrip.held)]

\* One segment of every length and content on its way to the payload.
NextTrip ==
    /\ \/ \E len \in TripLengths : \E seed \in Seeds : \E stride \in Strides :
            \E turn \in 0..MaxTurn : EncodeSegment(SegmentBytes(len, seed, stride), turn)
       \/ SendChunk
       \/ DecodeHeld
    /\ UNCHANGED notTrip

\* --------------- SpeechFunctionCaller: the transcriptions it receives
\* The texts the service returns: one without a command keyword, one with.
UpdateTexts == {"hello", "Submit, ok"}

\* this.commandKeywords
CommandKeywords == {"submit"}

\* transcription.toLowerCase().replace(/[^a-zA-Z\s]/g, "").split(" ")
Words(text) ==
    IF text = "Submit, ok" THEN << "submit", "ok" >>
    ELSE IF text = "hello" THEN << "hello" >>
    ELSE << "" >>

\* detectKeywords(transcription)
DetectKeywords(text) == \E i \in DOMAIN Words(text) : Words(text)[i] \in CommandKeywords

InitUpdates ==
    /\ serverTranscription = ""
    /\ transcriptions = 0
    /\ pushInFlight = <<>>
    /\ received = {}
    /\ commands = {}

\* transcribeAudio: the service's text becomes currentTranscription and, being
\* another text than the one before, is sent to the client's WebSocket session
\* if there is one.
ServerTranscribes(text) ==
    /\ transcriptions < MaxTranscriptions
    /\ text # serverTranscription
    /\ serverTranscription' = text
    /\ transcriptions' = transcriptions + 1
    /\ pushInFlight' = IF audioWebHandler THEN Append(pushInFlight, text) ELSE pushInFlight
    /\ UNCHANGED << received, commands >>

\* handleTranscriptionUpdate(status): the command is handled if the processing
\* queue is empty and the text holds a keyword.
HandleTranscriptionUpdate(text) ==
    commands' = IF processingQueue = <<>> /\ DetectKeywords(text)
                THEN commands \cup {text} ELSE commands

\* The callback of setAudioWebHandler: a pushed transcription arrives.
PushArrives ==
    /\ pushInFlight # <<>>
    /\ pushInFlight' = Tail(pushInFlight)
    /\ received' = received \cup {Head(pushInFlight)}
    /\ IF Head(pushInFlight) # lastTranscription
       THEN /\ lastTranscription' = Head(pushInFlight)
            /\ HandleTranscriptionUpdate(Head(pushInFlight))
       ELSE UNCHANGED << lastTranscription, commands >>
    /\ UNCHANGED << serverTranscription, transcriptions >>
    /\ UNCHANGED << capturing, chunkIntervalId, audioChunks, audioWebHandler, isPolling,
                    backoffDelay, inFlight, scheduled, unchanged, errored, lastPoll >>

\* pollWithBackoff after its await: the response carries the Transcriber's
\* currentTranscription.
PollDelivers ==
    /\ PollResponse(serverTranscription)
    /\ received' = received \cup {serverTranscription}
    /\ IF serverTranscription # lastTranscription
       THEN HandleTranscriptionUpdate(serverTranscription)
       ELSE UNCHANGED commands
    /\ UNCHANGED << serverTranscription, transcriptions, pushInFlight >>

\* A capture with polling or with a WebSocket handler, MaxPushed segments in
\* the processing queue, and the transcriptions of the server on their way to
\* the client; a text is polled MaxSamePolls times more after it was first polled.
NextUpdates ==
    \/ ToggleCapture /\ UNCHANGED notPoll
    \/ DataAvailable /\ UNCHANGED notPoll
    \/ SetAudioWebHandler /\ UNCHANGED notPoll
    \/ IntervalTick /\ UNCHANGED notPoll
    \/ TimeoutFires /\ UNCHANGED notPoll
    \/ (\E text \in UpdateTexts : ServerTranscribes(text)) /\ UNCHANGED notUpdates
    \/ PushArrives /\ UNCHANGED notPollUpdates
    \/ unchanged < MaxSamePolls /\ PollDelivers /\ UNCHANGED notPollUpdates
    \/ (\E i \in 1..MaxPushed : PushSegment(i)) /\ UNCHANGED notQueue
    \/ (\E i \in QueueSegments : \E fails \in BOOLEAN : ChunkSettles(i, fails))
          /\ UNCHANGED notQueue
    \/ (\E cyc \in cycles : CycleEnds(cyc)) /\ UNCHANGED notQueue

\* ------------------ SpeechFunctionCaller: the handleCommand executions
\* The commands of one client, in the order of their transcriptions.
Commands == 1..MaxCommands

\* The cleaned transcription of each command.
QueryOf(k) == IF k = 1 THEN "q1" ELSE "q2"

\* What getToolSchemas returns to a command's setUpResolver: one schema.
SchemasOf(k) == << "setValue" >>

NotResolved == [query |-> "", tools |-> <<>>, done |-> FALSE]

InitCommands ==
    /\ commandPc = [k \in Commands |-> "idle"]
    /\ resolvedWith = [k \in Commands |-> NotResolved]

\* The step of command k from `from` to `to`.
CommandGoes(k, from, to) ==
    /\ commandPc[k] = from
    /\ commandPc' = [commandPc EXCEPT ![k] = to]

\* handleTranscriptionUpdate calls handleCommand(transcription) and does not
\* wait for it: the command is extracted and setUpResolver sends resetTools.
HandleCommand(k) ==
    /\ CommandGoes(k, "idle", "resetTools")
    /\ \A j \in Commands : j < k => commandPc[j] # "idle"
    /\ UNCHANGED << resolvedWith, frvars >>

\* setUpResolver: the server runs resetTools.
CommandResetsTools(k) ==
    /\ CommandGoes(k, "resetTools", "addTool")
    /\ IF tools # <<>> THEN ResetTools ELSE UNCHANGED frvars
    /\ UNCHANGED resolvedWith

\* setUpResolver: the server runs addTool for the schema of getToolSchemas.
CommandAddsTool(k) ==
    /\ CommandGoes(k, "addTool", "setQuery")
    /\ AddTool(SchemasOf(k)[1], TRUE)
    /\ UNCHANGED resolvedWith

\* handleCommand: the server runs setQuery(cleanedTranscription).
CommandSetsQuery(k) ==
    /\ CommandGoes(k, "setQuery", "resolveFunctions")
    /\ IF query # QueryOf(k) THEN SetQuery(QueryOf(k)) ELSE UNCHANGED frvars
    /\ UNCHANGED resolvedWith

\* submitQuery: the server runs resolveFunctions with the query and the tools
\* it holds.
CommandResolves(k, outcome) ==
    /\ CommandGoes(k, "resolveFunctions", "done")
    /\ ResolveFunctions(outcome, "fail")
    /\ resolvedWith' = [resolvedWith EXCEPT ![k] =
                           [query |-> query, tools |-> tools, done |-> TRUE]]

\* The commands of one client, each begun when its transcription arrives,
\* whether the one before it has ended or not.
NextCommands ==
    /\ \/ \E k \in Commands : HandleCommand(k)
       \/ \E k \in Commands : CommandResetsTools(k)
       \/ \E k \in Commands : CommandAddsTool(k)
       \/ \E k \in Commands : CommandSetsQuery(k)
       \/ \E k \in Commands : \E outcome \in Outcomes : CommandResolves(k, outcome)
    /\ UNCHANGED notFRCommands

\* ------------------ SpeechFunctionCaller: toggleCapture, step by step
InitMedia ==
    /\ mediaRecorder = "undefined"
    /\ orphans = 0
    /\ intervals = 0
    /\ starting = 0
    /\ toggles = 0

\* What toggleCapture and startContinuousRecording do not touch.
pollRest == << audioWebHandler, isPolling, lastTranscription, backoffDelay, inFlight,
               scheduled, unchanged, errored, lastPoll >>

\* toggleCapture() while capturing is false: capturing = true, and
\* startContinuousRecording waits in startRecording for getUserMedia.
ToggleCaptureOn ==
    /\ ~capturing
    /\ toggles < MaxToggles
    /\ toggles' = toggles + 1
    /\ capturing' = TRUE
    /\ starting' = starting + 1
    /\ UNCHANGED << chunkIntervalId, audioChunks, mediaRecorder, orphans, intervals >>

\* stopContinuousRecording(): clearInterval of the id held, if one is held, and
\* stop() of the recorder held, if one is held; stop() of a recorder that is
\* not recording throws and changes nothing.
StopContinuousRecording ==
    /\ chunkIntervalId' = FALSE
    /\ intervals' = IF chunkIntervalId THEN intervals - 1 ELSE intervals
    /\ mediaRecorder' = IF mediaRecorder = "recording" THEN "inactive" ELSE mediaRecorder
    /\ UNCHANGED << audioChunks, orphans >>

\* toggleCapture() while capturing is true: capturing = false, then
\* stopContinuousRecording, which runs to its end without waiting.
ToggleCaptureOff ==
    /\ capturing
    /\ toggles < MaxToggles
    /\ toggles' = toggles + 1
    /\ capturing' = FALSE
    /\ StopContinuousRecording
    /\ UNCHANGED starting

\* getUserMedia settles. Refused: startRecording throws and
\* startContinuousRecording reports it. Granted: startRecording makes a new
\* MediaRecorder, empties audioChunks and starts the recorder, and
\* startContinuousRecording sets the interval and keeps its id.
StartRecordingSettles(granted) ==
    /\ starting > 0
    /\ starting' = starting - 1
    /\ IF granted
         THEN /\ mediaRecorder' = "recording"
              /\ orphans' = IF mediaRecorder = "recording" THEN orphans + 1 ELSE orphans
              /\ audioChunks' = FALSE
              /\ intervals' = intervals + 1
              /\ chunkIntervalId' = TRUE
         ELSE UNCHANGED << mediaRecorder, orphans, audioChunks, intervals, chunkIntervalId >>
    /\ UNCHANGED << capturing, toggles >>

\* mediaRecorder.ondataavailable of a recorder that records, referred to or
\* not: this.audioChunks.push(event.data)
RecorderData ==
    /\ mediaRecorder = "recording" \/ orphans > 0
    /\ ~audioChunks
    /\ audioChunks' = TRUE
    /\ UNCHANGED << capturing, chunkIntervalId, mvars >>

\* The capture button, pressed at any time, the answers to getUserMedia and the
\* data of the recorders.
NextMedia ==
    /\ \/ ToggleCaptureOn
       \/ RecorderData
       \/ ToggleCaptureOff
       \/ \E granted \in BOOLEAN : StartRecordingSettles(granted)
    /\ UNCHANGED << pollRest, notPollMedia >>

\* ------------------------------------------ DataProcessor.process
\* The public methods with no parameters that getMethod finds, per class.
Methods == [k \in KnownKinds |-> IF k = "Transcriber" THEN {"clearAll", "transcribe"}
                                 ELSE {"clearAll", "resetTools"}]

Envelope(fields, className, functionName) ==
    [fields |-> fields, class |-> className, function |-> functionName]

\* The envelopes sent: a good one, one without "parameters", one for a class
\* and one for a function that do not exist.
Envelopes ==
    { Envelope(TRUE, "Transcriber", "clearAll"),
      Envelope(FALSE, "Transcriber", "clearAll"),
      Envelope(TRUE, "Recorder", "clearAll"),
      Envelope(TRUE, "Transcriber", "setQuery") }

NoEnvelope == Envelope(FALSE, "", "")

\* An envelope with its fields, a known class and a method of that class.
WellFormed(env) ==
    /\ env.fields
    /\ env.class \in KnownKinds
    /\ env.function \in Methods[env.class]

NoReply == [envelope |-> NoEnvelope, clientId |-> "", error |-> "none", invoked |-> FALSE]

\* The threads that run process.
Processors == {"t1", "t2"}

InitProcess ==
    /\ envelope = [t \in Threads |-> NoEnvelope]
    /\ reply = [t \in Threads |-> NoReply]
    /\ served = {}

\* process(clientId, data) up to getInstance: a missing field throws
\* IllegalArgumentException, otherwise getInstance(clientId, className) begins.
Process(t, c, env) ==
    /\ call[t].pc = "idle"
    /\ served' = IF WellFormed(env) THEN served \cup {c} ELSE served
    /\ IF env.fields
       THEN /\ GetInstance(t, c, env.class)
            /\ envelope' = [envelope EXCEPT ![t] = env]
            /\ reply' = [reply EXCEPT ![t] = NoReply]
       ELSE /\ reply' = [reply EXCEPT ![t] =
                           [envelope |-> env, clientId |-> c,
                            error |-> "IllegalArgumentException", invoked |-> FALSE]]
            /\ UNCHANGED << envelope, imvars >>

\* process after getInstance: what getInstance threw is thrown on; otherwise
\* getMethod throws NoSuchMethodException or the method found is invoked.
ProcessEnds(t) ==
    LET env == envelope[t]
        error == IF call[t].pc = "thrown" THEN call[t].error.type
                 ELSE IF env.function \in Methods[env.class] THEN "none"
                 ELSE "NoSuchMethodException"
    IN
    /\ call[t].pc \in {"returned", "thrown"}
    /\ reply' = [reply EXCEPT ![t] =
                   [envelope |-> env, clientId |-> call[t].clientId,
                    error |-> error, invoked |-> error = "none"]]
    /\ envelope' = [envelope EXCEPT ![t] = NoEnvelope]
    /\ call' = [call EXCEPT ![t] = Idle]
    /\ UNCHANGED << clientInstances, maps, created, removes, served >>

\* Two threads that process one envelope after the other.
NextProcess ==
    /\ \/ \E t \in Processors : \E c \in Clients : \E env \in Envelopes : Process(t, c, env)
       \/ \E t \in Processors : GetInstancePut(t) /\ UNCHANGED dvars
       \/ \E t \in Processors : GetInstanceGet(t) /\ UNCHANGED dvars
       \/ \E t \in Processors : GetInstanceCompute(t, FALSE) /\ UNCHANGED dvars
       \/ \E t \in Processors : ProcessEnds(t)
    /\ UNCHANGED notIMProcess

Init ==
    /\ InitTranscriber /\ InitStream /\ InitIM /\ InitPoll /\ InitFR /\ InitSchemas
    /\ InitAudio /\ InitOutcome /\ InitQueue /\ InitCapture /\ InitGate /\ InitKeys
    /\ InitTrip /\ InitUpdates /\ InitCommands /\ InitMedia /\ InitProcess

SpecAudio == Init /\ [][NextAudio]_vars

SpecCapture == Init /\ [][NextCapture]_vars

SpecGate == Init /\ [][NextGate]_vars

SpecProcess == Init /\ [][NextProcess]_vars

SpecMedia == Init /\ [][NextMedia]_vars

SpecCommands == Init /\ [][NextCommands]_vars

SpecTrip == Init /\ [][NextTrip]_vars

SpecKeys == Init /\ [][NextKeys]_vars

\* Every handleAudioChunk call ends and the continuation of processQueue runs.
SpecQueue ==
    /\ Init /\ [][NextQueue]_vars
    /\ WF_vars((\E i \in QueueSegments : \E fails \in BOOLEAN : ChunkSettles(i, fails))
                  /\ UNCHANGED notQueue)
    /\ WF_vars((\E cyc \in cycles : CycleEnds(cyc)) /\ UNCHANGED notQueue)

\* Pushed texts arrive, polls are answered and the next ones sent, every
\* handleAudioChunk call ends and the continuation of processQueue runs.
SpecUpdates ==
    /\ Init /\ [][NextUpdates]_vars
    /\ WF_vars(PushArrives /\ UNCHANGED notPollUpdates)
    /\ WF_vars(unchanged < MaxSamePolls /\ PollDelivers /\ UNCHANGED notPollUpdates)
    /\ WF_vars(TimeoutFires /\ UNCHANGED notPoll)
    /\ WF_vars((\E i \in QueueSegments : \E fails \in BOOLEAN : ChunkSettles(i, fails))
                  /\ UNCHANGED notQueue)
    /\ WF_vars((\E cyc \in cycles : CycleEnds(cyc)) /\ UNCHANGED notQueue)

SpecSchemas == Init /\ [][NextSchemas]_vars

SpecProducers == Init /\ [][NextProducers]_vars

SpecFR == Init /\ [][NextFR]_vars

SpecTools == Init /\ [][NextTools]_vars

SpecPoll == Init /\ [][NextPoll]_vars

SpecIM == Init /\ [][NextIM]_vars

\* One client in whole seconds: chunk arrivals on both paths, both timers,
\* clearAll and the transcription task.
Next ==
    \/ MoreChunks /\ AddBase64Data("A", Key(<<1, 0, 0>>, <<2>>), <<0, 16, Pad, Pad>>)
                  /\ UNCHANGED others
    \/ MoreChunks /\ HandleBinaryMessage("s1", <<7>>) /\ UNCHANGED others
    \/ ClearAll("A") /\ UNCHANGED others
    \/ TimersAndTasks("A") /\ UNCHANGED others
    \/ TaskResult("A", <<1>>, {}) /\ UNCHANGED others
    \/ Tick(TicksPerSecond) /\ UNCHANGED others

Spec == Init /\ [][Next]_vars

\* One client in whole seconds: the results of the service and their delivery
\* to the client's sessions.
NextSend ==
    \/ MoreChunks /\ HandleBinaryMessage("s1", <<7>>) /\ UNCHANGED others
    \/ MoreChunks /\ HandleBinaryMessage("s2", <<7>>) /\ UNCHANGED others
    \/ UnregisterWebSocketSession("s1") /\ UNCHANGED others
    \/ CloseSession("s1") /\ UNCHANGED others
    \/ ClearAll("A") /\ UNCHANGED others
    \/ TimersAndTasks("A") /\ UNCHANGED others
    \/ /\ \E r \in ServiceTexts : \E f \in SUBSET {"s1"} : TaskResult("A", r, f)
       /\ UNCHANGED others
    \/ Tick(TicksPerSecond) /\ UNCHANGED others

SpecSend == Init /\ [][NextSend]_vars

\* One client in whole seconds: the service limits the rate of the calls.
NextRetry ==
    \/ MoreChunks /\ HandleBinaryMessage("s1", <<7>>) /\ UNCHANGED others
    \/ ClearAll("A") /\ UNCHANGED others
    \/ TimersAndTasks("A") /\ UNCHANGED others
    \/ TaskResult("A", <<1>>, {}) /\ UNCHANGED others
    \/ TaskRateLimited("A") /\ UNCHANGED others
    \/ TaskWake("A") /\ UNCHANGED others
    \/ TaskSleepInterrupted("A") /\ UNCHANGED others
    \/ Tick(TicksPerSecond) /\ UNCHANGED others

SpecRetry == Init /\ [][NextRetry]_vars

\* One client in whole seconds with no clearAll: chunks, both timers, and tasks
\* that the service answers, fails or delays by its rate limit.  The scheduler
\* and the executor run what is due, every call to the service ends, and time
\* goes on.
NextLive ==
    \/ MoreChunks /\ HandleBinaryMessage("s1", <<7>>) /\ UNCHANGED others
    \/ TimersAndTasks("A") /\ UNCHANGED others
    \/ TaskResult("A", <<1>>, {}) /\ UNCHANGED others
    \/ TaskRateLimited("A") /\ UNCHANGED others
    \/ TaskWake("A") /\ UNCHANGED others
    \/ Tick(TicksPerSecond) /\ UNCHANGED others

SpecLive ==
    /\ Init /\ [][NextLive]_vars
    /\ WF_vars(TimersAndTasks("A") /\ UNCHANGED others)
    /\ WF_vars(TaskResult("A", <<1>>, {}) /\ UNCHANGED others)
    /\ WF_vars(TaskWake("A") /\ UNCHANGED others)
    /\ WF_vars(Tick(TicksPerSecond) /\ UNCHANGED others)

\* The task of client c that waits for the service's answer.
Calling(c) == CHOOSE t \in running[c] : t.pc = "call"

\* The service answers the call of c's task with `result`.
Answered(c, result) ==
    /\ TaskResult(c, result, {})
    /\ serviceAnswer' = [id |-> Calling(c).id, kind |-> "answer", text |-> result]

\* The call of c's task fails otherwise than by the rate limit.
Failed(c) ==
    /\ TaskFails(c)
    /\ serviceAnswer' = [id |-> Calling(c).id, kind |-> "failure", text |-> <<>>]

\* The steps of startTranscription before the call.
TaskBegins(c) ==
    TaskCancelSilence(c) \/ TaskCancelMax(c) \/ TaskResetFirst(c) \/ TaskAssemble(c)

\* One client in whole seconds, with a session registered by its messages: every
\* call to the service is answered with a text or fails, and the observer keeps
\* which.
NextOutcome ==
    \/ MoreChunks /\ HandleBinaryMessage("s1", <<7>>) /\ UNCHANGED others
    \/ ClearAll("A") /\ UNCHANGED others
    \/ SilenceTimerStart("A") /\ UNCHANGED others
    \/ SilenceTimerRun("A") /\ UNCHANGED others
    \/ MaxTimerStart("A") /\ UNCHANGED others
    \/ MaxTimerRun("A") /\ UNCHANGED others
    \/ ExecutorTake("A") /\ UNCHANGED others
    \/ TaskBegins("A") /\ UNCHANGED others
    \/ (\E r \in ServiceTexts : Answered("A", r)) /\ UNCHANGED notOutcome
    \/ Failed("A") /\ UNCHANGED notOutcome
    \/ Tick(TicksPerSecond) /\ UNCHANGED others

SpecOutcome == Init /\ [][NextOutcome]_vars

\* One client in ticks of 1/TicksPerSecond s: the debounce of the silence timer.
NextDebounce ==
    \/ MoreChunks /\ HandleBinaryMessage("s1", <<7>>) /\ UNCHANGED others
    \/ ClearAll("A") /\ UNCHANGED others
    \/ TimersAndTasks("A") /\ UNCHANGED others
    \/ TaskResult("A", <<1>>, {}) /\ UNCHANGED others
    \/ Tick(1) /\ UNCHANGED others

SpecDebounce == Init /\ [][NextDebounce]_vars

\* ------------------------------------------- a chunk every second
\* The first chunk of the stream, sent to a client with no pending data and no task.
StreamBegin ==
    /\ stream.phase = "idle"
    /\ ~HasAudioData("A")
    /\ taskQueue["A"] = <<>> /\ running["A"] = {} /\ schedRunning["A"] = "none"
    /\ HandleBinaryMessage("s1", <<7>>)
    /\ stream' = [phase |-> "on", clock |-> 0, sent |-> TRUE, tasks |-> nextTaskId["A"],
                  by |-> 0]

\* The chunk of this second.
StreamChunk ==
    /\ stream.phase = "on"
    /\ ~stream.sent
    /\ HandleBinaryMessage("s1", <<7>>)
    /\ stream' = [stream EXCEPT !.sent = TRUE]

\* A second passes; `by` keeps the number of tasks submitted in the first
\* MAX_AUDIO_TIMEOUT_SECONDS seconds of the stream.
StreamTick ==
    /\ stream.phase = "on" => stream.sent
    /\ Tick(TicksPerSecond)
    /\ stream' =
          IF stream.phase # "on" THEN stream
          ELSE IF stream.clock = StreamSeconds THEN [stream EXCEPT !.phase = "over"]
          ELSE [stream EXCEPT !.clock = @ + 1, !.sent = FALSE,
                              !.by = IF stream.clock = MAX_AUDIO_TIMEOUT_SECONDS
                                     THEN nextTaskId["A"] - stream.tasks ELSE @]

\* One client in whole seconds: anything happens, then chunks arrive every
\* second for StreamSeconds seconds and nothing else is asked of the server.
NextStream ==
    \/ stream.phase = "idle" /\ MoreChunks /\ HandleBinaryMessage("s1", <<7>>)
                             /\ UNCHANGED others
    \/ stream.phase = "idle" /\ ClearAll("A") /\ UNCHANGED others
    \/ TimersAndTasks("A") /\ UNCHANGED others
    \/ TaskResult("A", <<1>>, {}) /\ UNCHANGED others
    \/ StreamBegin /\ UNCHANGED rest
    \/ StreamChunk /\ UNCHANGED rest
    \/ StreamTick /\ UNCHANGED rest

SpecStream == Init /\ [][NextStream]_vars

\* The data model takes a burst of MaxDataChunks chunks: each chunk follows the
\* one before it at once.
MoreData ==
    /\ Len(arrivals) < MaxDataChunks
    /\ arrivals = <<>> \/ sinceArrival["A"] = 0

\* One client in steps of the silence window: a burst of chunks of every key in
\* every order.
NextData ==
    \/ /\ MoreData
       /\ \E ch \in Chunks : AddBase64Data("A", ch.key, ch.data)
       /\ UNCHANGED others
    \/ MoreData /\ HandleBinaryMessage("s1", <<8, 9>>) /\ UNCHANGED others
    \/ ClearAll("A") /\ UNCHANGED others
    \/ TimersAndTasks("A") /\ UNCHANGED others
    \/ TaskResult("A", <<1>>, {}) /\ UNCHANGED others
    \/ Tick(SilenceTicks) /\ UNCHANGED others

SpecData == Init /\ [][NextData]_vars

\* Two clients in steps of the silence window, each with a chunk of its own on
\* either path.
NextIsolation ==
    \/ /\ MoreChunks
       /\ AddBase64Data("A", Key(<<1, 0, 0>>, <<2>>), <<0, 16, Pad, Pad>>)
       /\ UNCHANGED others
    \/ /\ MoreChunks
       /\ AddBase64Data("B", Key(<<9, 9>>, <<0>>), <<1, 0, Pad, Pad>>)
       /\ UNCHANGED others
    \/ MoreChunks /\ HandleBinaryMessage("s1", <<7>>) /\ UNCHANGED others
    \/ MoreChunks /\ HandleBinaryMessage("s3", <<8, 9>>) /\ UNCHANGED others
    \/ (\E c \in Clients : ClearAll(c)) /\ UNCHANGED others
    \/ (\E c \in Clients : TimersAndTasks(c)) /\ UNCHANGED others
    \/ (\E c \in Clients : TaskResult(c, <<1>>, {})) /\ UNCHANGED others
    \/ Tick(SilenceTicks) /\ UNCHANGED others

SpecIsolation == Init /\ [][NextIsolation]_vars

\* ------------------------------------------ a client removed and back
\* The Transcribers of one client: "A" is the first instance createNewInstance
\* makes for it, "B" the second.
InstanceIndex(n) == IF n = 1 THEN "A" ELSE "B"

\* The callers: one before the removal and one after it, or both at once.
Callers == {"t1", "t2"}

\* A caller holds the instance that its getInstance call returned.
Holds(i) ==
    \E t \in Callers : call[t].pc = "returned" /\ InstanceIndex(call[t].result) = i

\* One client's getInstance("A", "Transcriber") calls and removeClient("A"),
\* with base64 chunks added to the instance a caller got, its timers, its tasks
\* and the results of the service.
NextRemove ==
    \/ (\E t \in Callers : GetInstance(t, "A", "Transcriber")) /\ UNCHANGED notIM
    \/ (\E t \in Callers : GetInstancePut(t)) /\ UNCHANGED notIM
    \/ (\E t \in Callers : GetInstanceGet(t)) /\ UNCHANGED notIM
    \/ (\E t \in Callers : GetInstanceCompute(t, FALSE)) /\ UNCHANGED notIM
    \/ RemoveClient("A") /\ UNCHANGED notIM
    \/ /\ MoreChunks
       /\ \E i \in Clients :
             Holds(i) /\ AddBase64Data(i, Key(<<1, 0, 0>>, <<2>>), <<0, 16, Pad, Pad>>)
       /\ UNCHANGED others
    \/ (\E i \in Clients : TimersAndTasks(i)) /\ UNCHANGED others
    \/ (\E i \in Clients : TaskResult(i, <<1>>, {})) /\ UNCHANGED others
    \/ Tick(SilenceTicks) /\ UNCHANGED others

SpecRemove == Init /\ [][NextRemove]_vars

\* ---------------------------------------------------------------- claims

\* C1: for one client, whatever the interleaving of chunk arrivals, timer fires
\* and clearAll, at most one transcription task is executing at any time, and
\* every task was submitted by a timer fire that found no submitted-and-unfinished
\* task (a fire that finds one submits nothing).
C1_OneTaskExecuting ==
    \A c \in Clients :
        /\ Cardinality(running[c]) <= 1
        /\ ~lastSubmit[c].active

\* A task cancelled by clearAll is still calling the service, its successor waits
\* in the executor's queue, and the max timeout callback has started and finds
\* that successor submitted and unfinished.
C1_Witness ==
    /\ \E t \in running["A"] : t.cancelled /\ t.pc = "call"
    /\ taskQueue["A"] # <<>>
    /\ currentTranscriptionTask["A"].st = "new"
    /\ schedRunning["A"] = "max"
    /\ HasAudioData("A")


\* C2: a transcription submitted by the silence timer is submitted only when the
\* silence window has elapsed since the most recent chunk arrival.  With the
\* timer armed at 0 and the next chunk one tick before the window ends, with no
\* further chunk, no active task and no max timeout fire, nothing is submitted
\* until one tick before twice the window (not at 3 s), and the submission
\* happens then (5.9 s).
C2_SilenceDebounce ==
    \A c \in Clients :
        /\ lastSubmit[c].by = "silence" => lastSubmit[c].since >= SilenceTicks
        /\ obs[c].phase = "second" =>
              /\ nextTaskId[c] = obs[c].tasks
              /\ obs[c].clock <= 2 * SilenceTicks - 1
        /\ obs[c].phase = "fired" =>
              /\ obs[c].firedAt = 2 * SilenceTicks - 1
              /\ nextTaskId[c] = obs[c].tasks + 1

\* The scenario ran to its end: the silence timer submitted the one task.
C2_Witness ==
    /\ obs["A"].phase = "fired"
    /\ lastSubmit["A"].by = "silence"
    /\ lastSubmit["A"].id = obs["A"].tasks



\* C3: from a client with no pending data, with a chunk every second for 16 s,
\* exactly one transcription task is submitted at or before 15 s after the
\* first chunk.
C3_OneTaskWithinMaxTimeout ==
    stream.clock > MAX_AUDIO_TIMEOUT_SECONDS => stream.by = 1

\* The stream ran past the max timeout.
C3_Reached == stream.clock > MAX_AUDIO_TIMEOUT_SECONDS



\* What a payload is expected to hold, read off the chunks that arrived.
Held(lo, hi) == {i \in (lo + 1)..hi : arrivals[i].kind = "base64"}
NumKey(k) == << ParseLong(k.ts), ParseLong(k.ix) >>
KeyBefore(a, b) == a[1] < b[1] \/ (a[1] = b[1] /\ a[2] < b[2])
DistinctKeys(S) ==
    \A i, j \in S : i # j => NumKey(arrivals[i].key) # NumKey(arrivals[j].key)
Decoded(d) == IF Base64Decode(d).ok THEN Base64Decode(d).bytes ELSE <<>>
RECURSIVE SortedPayload(_)
SortedPayload(S) ==
    IF S = {} THEN <<>>
    ELSE LET m == CHOOSE i \in S : \A j \in S \ {i} :
                      KeyBefore(NumKey(arrivals[i].key), NumKey(arrivals[j].key))
         IN Decoded(arrivals[m].data) \o SortedPayload(S \ {m})
RECURSIVE WsPayload(_, _, _)
WsPayload(c, lo, hi) ==
    IF hi <= lo THEN <<>>
    ELSE WsPayload(c, lo, hi - 1)
         \o (IF arrivals[hi].kind = "ws" /\ arrivals[hi].client = c
             THEN arrivals[hi].data ELSE <<>>)

\* C4: whatever base64 chunks with pairwise distinct keys arrived, in whatever
\* order, the payload a transcription task assembles is the decoded chunks
\* concatenated in the order of their keys, compared as numbers by timestamp and
\* then by index ("100-10" after "100-2"), followed by the websocket bytes.
C4_PayloadInKeyOrder ==
    \A c \in Clients :
        started[c].id # 0 =>
            LET S == Held(started[c].allLo, started[c].hi)
            IN DistinctKeys(S) =>
                  started[c].audio
                     = SortedPayload(S) \o WsPayload(c, started[c].ownLo, started[c].hi)

\* Three decodable chunks with distinct keys were assembled, "100-10" having
\* arrived before "100-2" and "99-0" last.
C4_Witness ==
    /\ started["A"].id # 0
    /\ started["A"].allLo = 0
    /\ started["A"].hi = 3
    /\ arrivals[1].key = Key(<<1, 0, 0>>, <<1, 0>>)
    /\ arrivals[2].key = Key(<<1, 0, 0>>, <<2>>)
    /\ arrivals[3].key = Key(<<9, 9>>, <<0>>)
    /\ arrivals[1].data = <<0, 32, 12, Pad>>
    /\ arrivals[2].data = <<0, 16, Pad, Pad>>
    /\ arrivals[3].data = <<1, 0, Pad, Pad>>
    /\ started["A"].audio = <<4, 1, 2, 3>>



\* The chunks of client c alone, as a payload.
OwnHeld(c, lo, hi) == {i \in Held(lo, hi) : arrivals[i].client = c}
OwnPayload(c) ==
    SortedPayload(OwnHeld(c, started[c].ownLo, started[c].hi))
       \o WsPayload(c, started[c].ownLo, started[c].hi)
OwnChunksOnly(c) ==
    DistinctKeys(OwnHeld(c, started[c].ownLo, started[c].hi))
       => started[c].audio = OwnPayload(c)

\* C5: the state of the clients is isolated: a payload assembled for a client
\* holds the chunks of that client only, and clearAll on one client's
\* Transcriber leaves the buffered audio of every other client as it was.
C5_ClientsIsolated ==
    [][\A a \in Clients :
          /\ started'[a] # started[a] => OwnChunksOnly(a)'
          /\ ClearAll(a) =>
                \A b \in Clients \ {a} : CombinedBuffer(b)' = CombinedBuffer(b)]_vars

\* A payload was assembled for B while A had sent a base64 chunk.
C5_Reached ==
    /\ started["B"].id # 0
    /\ \E i \in 1..started["B"].hi : arrivals[i].client = "A" /\ arrivals[i].kind = "base64"



\* The getInstance calls that returned and saw no removeClient of their client
\* since they began.
Settled(t) == call[t].pc = "returned" /\ call[t].epoch = removes[call[t].clientId]
SameTarget(t, u) ==
    call[t].clientId = call[u].clientId /\ call[t].className = call[u].className

\* C6: concurrent getInstance calls for the same client and the same known
\* kind, with no removeClient in between, all return one instance and create
\* one instance at most; calls for different clients or kinds return different
\* instances.
C6_OneInstancePerClientAndKind ==
    /\ \A t, u \in Threads :
          Settled(t) /\ Settled(u) => (SameTarget(t, u) <=> call[t].result = call[u].result)
    /\ \A c \in Clients : \A k \in KnownKinds :
          Cardinality({i \in 1..Len(created) :
                          created[i] = [clientId |-> c, className |-> k,
                                        epoch |-> removes[c]]}) <= 1

\* Two concurrent calls for A's Transcriber and one for A's FunctionResolver
\* returned, with no removeClient at all.
C6_Witness ==
    /\ \A t \in Threads : call[t].pc = "returned" /\ call[t].clientId = "A"
    /\ call["t1"].className = "Transcriber"
    /\ call["t2"].className = "Transcriber"
    /\ call["t3"].className = "FunctionResolver"
    /\ call["t1"].result = call["t2"].result
    /\ call["t3"].result # call["t1"].result
    /\ removes = [c \in Clients |-> 0]
    /\ Len(created) = 2



\* C7: with no WebSocket handler set, polling is one sequential loop: at most
\* one poll is in flight or scheduled.
C7_OnePollAtATime == ~audioWebHandler => inFlight + scheduled <= 1

\* A poll is in flight while capture is on.
C7_Reached == capturing /\ ~audioWebHandler /\ inFlight = 1 /\ scheduled = 0

\* 1000 * 1.05^n in 1/Resolution ms
RECURSIVE Grown(_)
Grown(n) == IF n = 0 THEN minDelay * Resolution ELSE Grow(Grown(n - 1))

\* C8: from the minimum interval, after n polls in a row that found the
\* transcription unchanged the interval is min(1000 * 1.05^n, 10000) ms; a poll
\* that finds a changed transcription resets it to 1000 ms and a failed poll
\* sets it to 10000 ms.
C8_BackoffInterval ==
    /\ ~errored => backoffDelay = Min(Grown(unchanged), maxDelay * Resolution)
    /\ lastPoll = "changed" => backoffDelay = minDelay * Resolution /\ unchanged = 0
    /\ lastPoll = "error" => backoffDelay = maxDelay * Resolution

\* The interval reached the ceiling by growth alone.
C8_Witness ==
    /\ ~errored
    /\ lastPoll = "unchanged"
    /\ unchanged = MaxUnchanged
    /\ Grown(unchanged - 1) > maxDelay * Resolution
    /\ backoffDelay = maxDelay * Resolution



\* The last two sendTranscriptionToWebSockets calls of the client carried the
\* same text, and the first of them carried a text new at its time.
TwiceInARow(c) ==
    /\ lastSend[c].n = 2
    /\ lastSend[c].text = lastSend[c].prevText
    /\ lastSend[c].prevChanged

\* The sessions registered and open at both calls, to which the first send did not fail.
AtBoth(c) == (lastSend[c].prevOpen \cap lastSend[c].open) \ lastSend[c].prevFailed

PushesOfTheTwo(c, s) ==
    (IF s \in lastSend[c].prevSentTo THEN 1 ELSE 0) + (IF s \in lastSend[c].sentTo THEN 1 ELSE 0)

OnePushEach(c) == \A s \in AtBoth(c) : PushesOfTheTwo(c, s) = 1

\* This step is a sendTranscriptionToWebSockets call that takes a text differing
\* from previousTranscription while a session is registered.
DifferingResultSent(c) ==
    \E r \in ServiceTexts : \E f \in SUBSET Sessions :
        /\ TaskResult(c, r, f)
        /\ Trim(r) # <<>>
        /\ ShouldSend(c, Trim(r))
        /\ previousTranscription'[c] = Trim(r)

\* The statement without clearAll: the same text twice in a row is pushed once
\* to each session, and previousTranscription changes only at a send of a
\* differing text.
C9_WithoutClearAll ==
    [][\A c \in Clients :
          /\ (TwiceInARow(c) => OnePushEach(c))'
          /\ previousTranscription'[c] # previousTranscription[c] => DifferingResultSent(c)]_vars

\* C9: the same text produced twice in a row with no clearAll in between is
\* pushed exactly once to each session registered and open at both times;
\* previousTranscription changes only when a send takes a text that differs
\* from it while a session is registered, or when clearAll resets it to empty.
C9_DuplicateSuppressed ==
    [][\A c \in Clients :
          /\ (TwiceInARow(c) /\ ~lastSend[c].cleared => OnePushEach(c))'
          /\ previousTranscription'[c] # previousTranscription[c] =>
                \/ DifferingResultSent(c)
                \/ ClearAll(c) /\ previousTranscription'[c] = <<>>]_vars

\* The same text was sent twice in a row to an open session, no clearAll in
\* between, after a clearAll had reset a non-empty previousTranscription.
C9_Witness ==
    /\ TwiceInARow("A")
    /\ ~lastSend["A"].cleared
    /\ AtBoth("A") # {}
    /\ previousTranscription["A"] = lastSend["A"].text
    /\ clears > 0



\* C10: after a resolution round that brings the raw history to
\* 2 * COMPRESSION_THRESHOLD turns the history is empty and the summary holds
\* the summarizer's result; the messages of the next resolveFunctions call hold
\* the summary and the new query and none of the turns of the history before
\* the compression.
C10_CompressedAtDoubleThreshold ==
    /\ lastRound.reached >= 2 * COMPRESSION_THRESHOLD =>
          /\ contextHistory = <<>>
          /\ contextSummary \in Summaries
          /\ contextSummary = lastRound.summarized
    /\ prevRound.reached >= 2 * COMPRESSION_THRESHOLD =>
          /\ chatMessages.summary \in Summaries
          /\ chatMessages.summary = prevRound.summarized
          /\ chatMessages.query = lastRound.query
          /\ Range(chatMessages.history) \cap prevRound.turns = {}

\* A round compressed the history and another call followed it.
C10_Reached ==
    /\ prevRound.reached >= 2 * COMPRESSION_THRESHOLD
    /\ prevRound.compressed
    /\ lastRound.n = prevRound.n + 1
    /\ chatMessages.summary = prevRound.summarized

\* C11: after every resolveFunctions call, whatever its outcome, the raw
\* history holds fewer than 2 * COMPRESSION_THRESHOLD turns.
C11_HistoryBelowDoubleThreshold == Len(contextHistory) < 2 * COMPRESSION_THRESHOLD

\* A call has just compressed the history.
C11_Reached == lastRound.compressed /\ lastRound.reached >= 2 * COMPRESSION_THRESHOLD
                /\ contextHistory = <<>>

\* C12: a resolveFunctions call whose call to the model fails returns an
\* error-typed result, and no call lets an exception out.
C12_LlmFailureIsErrorResult ==
    /\ lastRound.outcome = "llm-fail" => lastRound.result = "error"
    /\ lastRound.result # "thrown"

\* The call to the model has just failed.
C12_Reached == lastRound.outcome = "llm-fail" /\ lastRound.n = rounds

\* C13: a transcription task calls the speech-to-text service at most twice:
\* after a rate-limit answer it sleeps once and retries once.
C13_AtMostOneRetry == \A t \in running["A"] : t.tries <= 1

\* A task is in its second call, after one rate-limit answer and one sleep.
C13_Reached == \E t \in running["A"] : t.pc = "call" /\ t.tries = 1

\* C14: clearAll of the resolver leaves the history, the summary and the
\* pending query empty and the registered tools as they were.
C14_ResolverClearAll ==
    [][ResolverClearAll =>
          /\ contextHistory' = <<>>
          /\ contextSummary' = ""
          /\ query' = ""
          /\ tools' = tools]_vars

\* clearAll has run on a resolver with a query set, tools registered and a
\* summary made.
C14_Reached ==
    /\ rounds = MaxToolRounds
    /\ lastRound = NoRound
    /\ contextHistory = <<>> /\ contextSummary = ""
    /\ chatMessages.history # <<>>
    /\ query # ""
    /\ tools # <<>>

\* C15: registering a schema generator never calls it; a generator is called
\* only by getToolSchemas, once per call for each time it is registered, and
\* the schemas returned are those of the page at the time of the call.
C15_GeneratorsCalledOnRequest ==
    [][/\ toolSchemas' # toolSchemas => evaluations' = evaluations
       /\ evaluations' # evaluations => schemaCalls' = schemaCalls + 1
       /\ schemaCalls' = schemaCalls + 1 =>
             /\ \A gen \in Generators :
                   evaluations'[gen] = evaluations[gen] + Count(toolSchemas, gen)
             /\ \A i \in 1..Len(lastSchemas') : lastSchemas'[i].page = pageState]_vars

\* Two registered generators were asked for their schemas twice, on a page
\* that had changed since they were registered.
C15_Witness ==
    /\ Len(toolSchemas) = 2
    /\ toolSchemas[1] # toolSchemas[2]
    /\ schemaCalls = 2
    /\ \A i \in 1..2 : evaluations[toolSchemas[i]] = 2
    /\ lastSchemas # <<>> /\ lastSchemas[1].page = "page2"

\* What the caller of getInstance sees of a thrown exception, the class name
\* it passed itself left aside.
Signal(e) == << e.type, e.message[1] >>

\* The call failed because the kind is unknown, or because creation of a known
\* kind failed.
UnknownKindFailed(t) ==
    call[t].pc = "thrown" /\ call[t].instances # 0 /\ call[t].className \notin KnownKinds
KnownKindFailed(t) ==
    call[t].pc = "thrown" /\ call[t].instances # 0 /\ call[t].className \in KnownKinds

\* C16: the error of a getInstance call with an unknown kind differs from the
\* error of a call in which the creation of a known kind failed.
C16_UnknownKindDistinct ==
    \A t, u \in Threads :
        UnknownKindFailed(t) /\ KnownKindFailed(u) => Signal(call[t].error) # Signal(call[u].error)

\* One call failed for an unknown kind and another in the constructor of a known kind.
C16_Reached ==
    /\ UnknownKindFailed("t1") /\ call["t1"].error.cause = "IllegalArgumentException"
    /\ KnownKindFailed("t2") /\ call["t2"].error.cause = "Exception"

\* The frames sent for segment seg, in the order sent.
FramesOf(seg) == SelectSeq(frames, LAMBDA f : f.seg = seg)

\* The frames follow one another from byte `at` to byte `len` with no gap and
\* no byte twice.
RECURSIVE Covers(_, _, _)
Covers(fs, at, len) ==
    IF fs = <<>> THEN at = len
    ELSE Head(fs).from = at /\ Head(fs).to > at /\ Covers(Tail(fs), Head(fs).to, len)

\* The segments that went the binary way.
BinarySegments == {seg \in 1..Len(segments) : FramesOf(seg) # <<>>}

\* C17: the frames sent for a segment on the binary path, put together, are
\* the segment's bytes, each byte once.
C17_SegmentSentOnce ==
    \A seg \in BinarySegments : Covers(FramesOf(seg), 0, segments[seg])

\* A segment above the ceiling went the binary way.
C17_Reached == \E seg \in BinarySegments : segments[seg] > MAX_CHUNK_SIZE

\* C18: every frame sent on the binary path is at most MAX_CHUNK_SIZE bytes long.
C18_FrameWithinCeiling ==
    \A i \in 1..Len(frames) : frames[i].to - frames[i].from <= MAX_CHUNK_SIZE

\* A segment of more than two ceilings was split: its first three frames are
\* two of the ceiling's length and the rest.
C18_Reached ==
    \E seg \in BinarySegments :
        /\ segments[seg] = 2 * MAX_CHUNK_SIZE + 1
        /\ FramesOf(seg)[1] = [seg |-> seg, from |-> 0, to |-> MAX_CHUNK_SIZE]
        /\ FramesOf(seg)[3] = [seg |-> seg, from |-> 2 * MAX_CHUNK_SIZE,
                               to |-> 2 * MAX_CHUNK_SIZE + 1]

\* The number of bytes the base64 chunks of S decode to.
RECURSIVE TotalDecoded(_)
TotalDecoded(S) ==
    IF S = {} THEN 0
    ELSE LET i == CHOOSE i \in S : TRUE
         IN Len(Decoded(arrivals[i].data)) + TotalDecoded(S \ {i})

\* Two of the chunks of S have the same sequence key and different contents.
SameKeyTwice(S) ==
    \E i, j \in S : /\ i # j
                    /\ arrivals[i].key = arrivals[j].key
                    /\ arrivals[i].data # arrivals[j].data

\* C19: chunks with the same sequence key are all kept: the payload a task
\* assembles holds the bytes of every chunk added since the last payload,
\* also of two chunks with one key.
C19_SameKeyChunksKept ==
    \A c \in Clients :
        started[c].id # 0 =>
            LET S == Held(started[c].allLo, started[c].hi)
            IN Len(started[c].audio)
                  = TotalDecoded(S) + Len(WsPayload(c, started[c].ownLo, started[c].hi))

\* A payload was assembled after two chunks with the key "100-2" and different
\* contents had been added.
C19_Reached ==
    /\ started["A"].id # 0
    /\ SameKeyTwice(Held(started["A"].allLo, started["A"].hi))

\* The call of thread t, begun after removeClient, creates an instance in this step.
CreatesAfterRemoval(t) ==
    /\ call[t].pc = "computeIfAbsent"
    /\ call'[t].pc = "returned"
    /\ Len(created') = Len(created) + 1
    /\ call[t].epoch > 0

\* Transcriber i holds no audio and no transcription.
EmptyTranscriber(i) ==
    /\ ~HasAudioData(i)
    /\ CombinedBuffer(i) = <<>>
    /\ currentTranscription[i] = <<>>

\* C20: the instance that getInstance creates for a client after removeClient
\* has empty state, whatever was added for the client before the removal.
C20_FreshAfterRemoveClient ==
    [][\A t \in Threads :
          \A i \in Clients :
              CreatesAfterRemoval(t) /\ i = InstanceIndex(call'[t].result)
                  => EmptyTranscriber(i)']_vars

\* A chunk was added to the client's first Transcriber, the client was removed
\* and a getInstance call begun after that has created the second Transcriber.
C20_Reached ==
    /\ arrivals # <<>> /\ arrivals[1].client = "A"
    /\ removes["A"] = 1
    /\ \E t \in Threads :
          /\ call[t].pc = "returned" /\ call[t].epoch = 1
          /\ call[t].result = 2 /\ created[2].epoch = 1

\* A poll ends in this step: pollWithBackoff reaches its end.
PollEnds == inFlight' = inFlight - 1

\* C21: a poll that ends while capture is stopped is not rescheduled, so that
\* after the stop the polls in flight finish and no further poll is sent.
C21_NoRescheduleAfterStop ==
    [][~capturing /\ ~capturing' /\ PollEnds => scheduled' = scheduled]_vars

\* Capture was stopped, the interval is cleared, and a poll sent before the stop
\* is still in flight.
C21_Reached ==
    /\ ~capturing /\ ~chunkIntervalId
    /\ isPolling
    /\ inFlight > 0

\* A chunk of client c arrived after the payload of c's last task was assembled
\* and after c's last clearAll.
ChunkSince(c) ==
    \E i \in (Max(started[c].hi, clearedUpTo[c]) + 1)..Len(arrivals) : arrivals[i].client = c

\* No task of client c is active, queued or run by the worker, and no callback
\* of the scheduler is under way.
Quiet(c) ==
    /\ NoActiveTask(c)
    /\ taskQueue[c] = <<>> /\ running[c] = {}
    /\ schedRunning[c] = "none"

\* C22: while a chunk that arrived since the last task began, or since the last
\* clearAll, waits and no task is active, a max timeout timer is pending.
C22_MaxTimerPendingWhileDataWaits ==
    ChunkSince("A") /\ Quiet("A") => maxTimeoutTimer["A"].st = "pending"

\* A chunk waits after a clearAll, no task is active, and the max timeout timer
\* armed before the clearAll has fired.
C22_Reached ==
    /\ clears = 1
    /\ ChunkSince("A") /\ Quiet("A")
    /\ HasAudioData("A")
    /\ maxTimeoutTimer["A"].st = "done"

\* The i-th chunk that arrived is in a payload assembled after its arrival.
Included(i) == started["A"].hi >= i

\* C23: with no clearAll and every task ending, each chunk that arrives is
\* sooner or later in the payload of a task, also a chunk that arrives while a
\* task is active and is followed by no other chunk.
C23_ChunkEventuallyTranscribed ==
    \A i \in 1..MaxChunks : (Len(arrivals) >= i) ~> Included(i)

\* The second chunk arrived while the task of the first was active; that task
\* is over, no task is queued or active, no timer is pending, and the chunk is
\* in no payload.
C23_Reached ==
    /\ Len(arrivals) = MaxChunks
    /\ ~Included(MaxChunks)
    /\ started["A"].id > 0
    /\ Quiet("A")
    /\ transcriptionTimer["A"].st # "pending"
    /\ maxTimeoutTimer["A"].st # "pending"

\* C24: the scheduler never holds more than one silence timer or more than one
\* max timeout timer of a client, whatever the interleaving of chunk arrivals,
\* timer callbacks, task starts and clearAll.
C24_OneTimerOfEachKind ==
    \A c \in Clients :
        /\ schedulerQueue[c].silence <= 1
        /\ schedulerQueue[c].max <= 1
        /\ schedulerQueue[c].silence = 1 <=> transcriptionTimer[c].st = "pending"
        /\ schedulerQueue[c].max = 1 <=> maxTimeoutTimer[c].st = "pending"

\* A chunk arrived while the silence callback, already started, waited for the
\* lock: the chunk has scheduled the next silence timer, which the callback is
\* about to replace by its own, and the max timeout timer is pending.
C24_Witness ==
    /\ schedRunning["A"] = "silence"
    /\ sinceLastData["A"] = 0
    /\ transcriptionTimer["A"].st = "pending"
    /\ schedulerQueue["A"] = [silence |-> 1, max |-> 1]

\* A text that is empty once trimmed: nothing but blanks.
Blank(text) == \A i \in 1..Len(text) : text[i] = 0

\* The text without its leading and trailing blanks.
Trimmed(text) ==
    LET inner == {i \in 1..Len(text) : text[i] # 0}
    IN IF inner = {} THEN <<>>
       ELSE SubSeq(text, CHOOSE i \in inner : \A j \in inner : i <= j,
                         CHOOSE i \in inner : \A j \in inner : i >= j)

\* After the step the task whose call ended is over: the worker runs nothing,
\* and the Future, if it is still the client's current one, is done.
TaskOver ==
    /\ running'["A"] = {}
    /\ currentTranscriptionTask'["A"].id = serviceAnswer'.id
          => IsDone(currentTranscriptionTask'["A"])

\* C25: a task changes currentTranscription only by storing the trimmed text of
\* a non-empty answer; after a blank answer or a failure other than the rate
\* limit, currentTranscription and previousTranscription are as before, nothing
\* is pushed, and the task is over, so that the next one can start.
C25_TaskUpdatesOnlyOnText ==
    [][/\ serviceAnswer' # serviceAnswer =>
            /\ TaskOver
            /\ IF serviceAnswer'.kind = "answer" /\ ~Blank(serviceAnswer'.text)
               THEN currentTranscription'["A"] = Trimmed(serviceAnswer'.text)
               ELSE UNCHANGED << currentTranscription, previousTranscription, pushes >>
       /\ currentTranscription' # currentTranscription =>
            \/ serviceAnswer' # serviceAnswer
            \/ clears' # clears /\ currentTranscription'["A"] = <<>>]_vars

\* A text was stored and pushed, and the last call was then answered with
\* blanks or failed: the stored text is still there and the task is over.
C25_Witness ==
    /\ serviceAnswer.kind = "failure" \/ (serviceAnswer.kind = "answer" /\ Blank(serviceAnswer.text))
    /\ serviceAnswer.id > 1
    /\ currentTranscription["A"] # <<>>
    /\ pushes["s1"] # <<>>
    /\ NoActiveTask("A")

\* The step is a fan-out of client A: sendTranscriptionToWebSockets took a text
\* that differs from previousTranscription while a session was registered.
FanOut ==
    /\ lastSend'["A"] # lastSend["A"]
    /\ ~lastSend'["A"].clearing
    /\ lastSend'["A"].changed
    /\ activeSessions["A"] # {}

\* C26: in a fan-out, every registered session that is closed or whose send
\* fails is removed from activeSessions and gets nothing, and every other
\* registered session, being open, gets the text in that same fan-out.
C26_FanOutSurvivesFailures ==
    [][FanOut =>
          LET dropped == {s \in activeSessions["A"] :
                              ~sessionOpen[s] \/ s \in lastSend'["A"].failed}
          IN /\ activeSessions'["A"] = activeSessions["A"] \ dropped
             /\ \A s \in activeSessions["A"] \ dropped :
                    pushes'[s] = Append(pushes[s], lastSend'["A"].text)
             /\ \A s \in Sessions \ (activeSessions["A"] \ dropped) :
                    pushes'[s] = pushes[s]]_vars

\* In the last fan-out the send to s1 failed: s1 is no longer registered, and
\* s2, registered and open, got the text.
C26_Witness ==
    /\ lastSend["A"].failed = {"s1"}
    /\ lastSend["A"].sentTo = {"s2"}
    /\ activeSessions["A"] = {"s2"}
    /\ pushes["s2"] # <<>> /\ Last(pushes["s2"]) = lastSend["A"].text

\* C27: at most one drain cycle is under way, no segment is handed to
\* handleAudioChunk twice, and isProcessing is set for as long as a segment
\* handed over in the cycle has not settled, also when another one failed.
C27_OneDrainCycle ==
    /\ Cardinality(cycles) <= 1
    /\ isProcessing <=> cycles # {}
    /\ \A i \in QueueSegments : chunkState[i].calls <= 1
    /\ \A i \in QueueSegments : chunkState[i].st = "running" => isProcessing

\* A cycle with two segments: the handling of one has failed, the other is
\* still running, and isProcessing is set.
C27_Witness ==
    \E cyc \in cycles :
        /\ isProcessing
        /\ \E i, j \in cyc : chunkState[i].st = "failed" /\ chunkState[j].st = "running"

\* C28: every segment pushed onto the queue is handed to handleAudioChunk sooner
\* or later, also one pushed during a drain cycle and followed by no other.
C28_QueuedSegmentDispatched ==
    \A i \in QueueSegments : (chunkState[i].st = "queued") ~> (chunkState[i].st # "queued")

\* A segment pushed during a drain cycle is in the queue, the cycle is over and
\* nothing is under way.
C28_Reached ==
    /\ processingQueue # <<>>
    /\ ~isProcessing /\ cycles = {}
    /\ \A i \in QueueSegments : chunkState[i].st # "running"

\* C29: the segments cut in one capture session partition the recording: each
\* begins where the one cut before it ends, the first at 0, a silent one
\* included, and no two of them share audio, also when the callbacks of two
\* ticks run between each other's awaits.
C29_SegmentsPartitionAudio ==
    /\ \A i \in 1..Len(cut) :
          /\ cut[i].from < cut[i].to
          /\ cut[i].from = IF i = 1 THEN 0 ELSE cut[i - 1].to
    /\ \A i, j \in 1..Len(cut) :
          i < j => cut[i].to <= cut[j].from \/ cut[j].to <= cut[i].from

\* The callbacks of two ticks overlap: both have taken their audio from the
\* cursor and neither has advanced it yet.
C29_Reached ==
    \E j, k \in IntervalTicks :
        /\ j < k
        /\ tickRuns[j].pc = "rendering" /\ tickRuns[k].pc = "rendering"
        /\ tickRuns[j].duration < tickRuns[k].duration

\* The sum of the absolute values of the samples.
RECURSIVE MagnitudeSum(_)
MagnitudeSum(samples) ==
    IF samples = <<>> THEN 0 ELSE Abs(Head(samples)) + MagnitudeSum(Tail(samples))

\* C30: the energy of a segment of signed 16-bit little-endian samples is the
\* mean of the absolute values of the samples, and the segment is discarded
\* exactly when that mean is strictly below the threshold.
C30_EnergyIsMeanMagnitude ==
    gate.calls > 0 =>
        /\ gate.sum = MagnitudeSum(gate.samples)
        /\ gate.silent <=> MagnitudeSum(gate.samples) < gate.threshold * Len(gate.samples)

\* A segment of one sample of value -1 was gated at the threshold 200.
C30_Reached ==
    /\ gate.calls > 0
    /\ gate.samples = <<-1>>
    /\ gate.threshold = 200

\* The order of the keys: first by timestamp, then by index.
SequenceBefore(a, b) == a.ts < b.ts \/ (a.ts = b.ts /\ a.index < b.index)

\* C31: the sequence keys are strictly increasing in capture order over all the
\* chunks of all the segments: no two chunks have the same key, and every chunk
\* of an earlier segment sorts before every chunk of a later one.
C31_KeysStrictlyIncreasing ==
    \A i, j \in DOMAIN keyed : i < j => SequenceBefore(keyed[i].key, keyed[j].key)

\* Two segments of two chunks each were cut within the same millisecond.
C31_Reached ==
    /\ Len(keyed) = 4
    /\ keyed[1].segment = 1 /\ keyed[3].segment = 2
    /\ keyed[1].key.ts = keyed[4].key.ts

\* C32: the bytes of a segment, encoded, padded, cut into chunks of 5000
\* characters, each chunk decoded on its own and the results joined in the
\* order of the keys, are the bytes of the segment again.
C32_Base64RoundTrip ==
    roundTrip.phase = "decoded" => roundTrip.decoded = roundTrip.bytes

\* A segment of 7502 bytes went through in three chunks, the last one padded,
\* and the clock moved on within the splitting.
C32_Witness ==
    /\ roundTrip.phase = "decoded"
    /\ Len(roundTrip.bytes) = 7502
    /\ Len(roundTrip.held) = 3
    /\ roundTrip.held[1].key.ts # roundTrip.held[3].key.ts
    /\ Last(roundTrip.held[3].data) = Pad

\* The texts of the schemas of the generators that succeed and return an
\* object, in the order of their registration.
RECURSIVE ObjectSchemas(_, _)
ObjectSchemas(gens, page) ==
    IF gens = <<>> THEN <<>>
    ELSE LET r == Produce(Head(gens), page)
         IN (IF ~r.threw /\ r.type = "object" THEN << Stringify(r) >> ELSE <<>>)
                \o ObjectSchemas(Tail(gens), page)

\* C33: getToolSchemas returns exactly the serialized schemas of the producers
\* that succeeded and returned an object, in registration order; a producer that
\* throws or returns a non-object is left out.
C33_OnlyObjectSchemasReturned ==
    [][schemaCalls' # schemaCalls => lastSchemas' = ObjectSchemas(toolSchemas, pageState)]_vars

\* getToolSchemas ran with a generator that returns null and one that returns
\* an object registered.
C33_Reached ==
    /\ schemaCalls > 0
    /\ toolSchemas = << "returnsNull", "f" >>
    /\ Len(lastSchemas) = 2

\* A resolveFunctions step that returned a message or a functions result.
SuccessfulRound == rounds' # rounds /\ lastRound'.result \in {"message", "functions"}

\* C34: a successful resolveFunctions round appends exactly one turn, the user
\* query, to the history when the model emits no tool call, and exactly two, the
\* query and then the previous-response turn, when it emits tool calls; the
\* functions result lists every tool call of the response in the order emitted.
\* (Where the round goes on to compress the history, the turns are those the
\* history holds at the compression check.)
C34_TurnsAppendedAndCallsListed ==
    [][SuccessfulRound =>
          LET q == UserMessage(query, rounds')
              r == PreviousResponse(query, rounds')
              turns == IF lastRound'.outcome = "functions" THEN << q, r >> ELSE << q >>
          IN /\ lastRound'.appended = turns
             /\ ~lastRound'.compressed => contextHistory' = contextHistory \o turns
             /\ lastRound'.outcome = "functions" =>
                   /\ lastRound'.result = "functions"
                   /\ lastRound'.functions = lastRound'.toolCalls]_vars

\* A round with two tool calls followed a round with a message answer.
C34_Witness ==
    /\ lastRound.result = "functions"
    /\ lastRound.functions = << "click", "setValue" >>
    /\ prevRound.result = "message"
    /\ Len(contextHistory) = 3

\* C35: after clearAll, currentTranscription stays empty until a task submitted
\* after that clearAll completes: a task that was running when clearAll
\* cancelled it writes no result into currentTranscription and pushes none.
C35_CancelledTaskWritesNothing ==
    [][\A c \in Clients :
          (\E t \in running[c] : t.cancelled) =>
              /\ currentTranscription'[c] = <<>>
              /\ \A s \in Sessions : SessionClient(s) = c => pushes'[s] = pushes[s]]_vars

\* The only task ever submitted for client A was cancelled by clearAll while it
\* ran, it has ended, and currentTranscription holds a text.
C35_Reached ==
    /\ clears > 0
    /\ nextTaskId["A"] = 2
    /\ currentTranscriptionTask["A"].id = 1
    /\ currentTranscriptionTask["A"].st = "cancelled"
    /\ running["A"] = {}
    /\ currentTranscription["A"] # <<>>

\* The call of thread t has returned, and no removeClient of its client followed.
ReturnedAfterLastRemoval(t) ==
    call[t].pc = "returned" /\ call[t].returnedAt = removes[call[t].clientId]

\* No getInstance call for a known kind ends with an error of the interleaving.
NoNullPointer ==
    \A t \in Threads :
        call[t].className \in KnownKinds => call[t].error.type # "NullPointerException"

\* Two calls for one client and kind that returned after the last removal
\* returned the same instance.
SameInstanceAfterRemoval ==
    \A t, u \in Threads :
        ReturnedAfterLastRemoval(t) /\ ReturnedAfterLastRemoval(u) /\ SameTarget(t, u)
            => call[t].result = call[u].result

\* C36: under any interleaving of getInstance(c, kind) for a known kind with
\* removeClient(c), getInstance returns an instance and raises no error, and any
\* two getInstance(c, kind) calls that both return after the last removeClient(c)
\* return the same instance.
C36_GetInstanceSafeUnderRemoval == NoNullPointer /\ SameInstanceAfterRemoval

\* A getInstance("A", "Transcriber") call that began before removeClient("A")
\* has ended with a NullPointerException.
C36_Reached ==
    /\ removes["A"] = 1
    /\ \E t \in Threads :
          /\ call[t].pc = "thrown" /\ call[t].error = NullPointer
          /\ call[t].clientId = "A" /\ call[t].className = "Transcriber"
          /\ call[t].epoch = 0

\* C37: every transcription the client receives, by push or by poll, that holds
\* a command keyword eventually leads to a resolution request for it, also when
\* the processing queue is not empty at the moment it is first received.
C37_KeywordEventuallyResolved ==
    \A text \in UpdateTexts :
        (text \in received /\ DetectKeywords(text)) ~> (text \in commands)

\* A text with a keyword was received while the processing queue held a
\* segment, and was not handed to handleCommand.
C37_Reached ==
    /\ "Submit, ok" \in received
    /\ lastTranscription = "Submit, ok"
    /\ processingQueue # <<>>
    /\ commands = {}

\* C38: when two handleCommand executions overlap, each resolveFunctions request
\* resolves the query set by its own handleCommand against the tool list
\* registered by its own setUpResolver, each schema registered exactly once.
C38_CommandResolvesItsOwnQuery ==
    \A k \in Commands :
        resolvedWith[k].done =>
            /\ resolvedWith[k].query = QueryOf(k)
            /\ resolvedWith[k].tools = SchemasOf(k)

\* The second command began before the first had sent its resolveFunctions
\* request, and the first has been resolved.
C38_Reached ==
    /\ resolvedWith[1].done
    /\ commandPc[2] \notin {"idle", "done"}
    /\ resolvedWith[1].query = QueryOf(2)

\* C39: once every toggleCapture call has settled and capturing is false, no
\* interval timer is set and no recorder is recording.
C39_StoppedMeansNothingRuns ==
    (starting = 0 /\ ~capturing) =>
        /\ intervals = 0
        /\ mediaRecorder # "recording"
        /\ orphans = 0

\* Capture was switched on and off again, the start has got its microphone
\* since, and its recorder records while capturing is false.
C39_Reached ==
    /\ starting = 0
    /\ ~capturing
    /\ toggles = 2
    /\ mediaRecorder = "recording"
    /\ chunkIntervalId

\* C40: an envelope that lacks a field or names an unknown class or function is
\* answered with an error and invokes no method, and a client that has sent
\* only such envelopes has no entry in clientInstances.
C40_InvalidEnvelopeLeavesNoTrace ==
    /\ \A t \in Processors :
          (reply[t] # NoReply /\ ~WellFormed(reply[t].envelope)) =>
              (reply[t].error # "none" /\ ~reply[t].invoked)
    /\ \A c \in Clients :
          (c \notin served /\ \A t \in Processors : call[t].pc = "idle") =>
              clientInstances[c] = 0

\* An envelope for an unknown class has been answered, and its client, which
\* never sent a good envelope, has an entry in clientInstances.
C40_Reached ==
    \E t \in Processors :
        /\ reply[t].envelope = Envelope(TRUE, "Recorder", "clearAll")
        /\ reply[t].error = "RuntimeException"
        /\ reply[t].clientId \notin served
        /\ clientInstances[reply[t].clientId] # 0
        /\ \A u \in Processors : call[u].pc = "idle"

=============================================================================
